---- MODULE Spec2Model ----
(***************************************************************************)
(* Model of src/src/utils/modelCache.ts: the IndexedDB-backed model cache  *)
(* and the streaming download of downloadAndCacheModel.                    *)
(*                                                                         *)
(* A call of downloadAndCacheModel is a sequence of steps separated by its *)
(* awaits: the store lookup, the arrival of the fetch response, each       *)
(* reader.read(), and the store write of cacheModel.  The network and the  *)
(* storage back end are the environment: every outcome they can produce    *)
(* (statuses, headers, chunkings, faults) is a nondeterministic choice.    *)
(***************************************************************************)
EXTENDS Integers, Sequences, FiniteSets, TLC

(* ------------------------------ bounds --------------------------------- *)
\* identities (model URLs) the callers use
URLS == {"u1", "u2"}
\* callers of downloadAndCacheModel that can be in flight together
NumCalls == 2
Calls == 1..NumCalls
\* payload bytes; 0 is the zero fill of a fresh ArrayBuffer
Bytes == {1, 2}
\* StreamSpec: longest chunk one reader.read() delivers, most chunks of a body
MaxChunkLen == 2
MaxChunks == 2
\* Spec: most chunks of a body
SmallChunks == 1
\* values Date.now() returns
Times == {1, 2}
\* ScenarioSpec: length of the payload served, most bytes one read delivers
PayloadLen == 10
MaxRead == 4

(* ------------------------------ values --------------------------------- *)
\* null as a url, as an ArrayBuffer (no byte is negative), as a header value
Null == "null"
NullBuf == <<-1>>
NoHeader == <<"null">>
\* the number NaN
NaN == -1

SeqsUpTo(S, n) == UNION {[1..k -> S] : k \in 0..n}

\* the Uint8Array values reader.read() can deliver
ChunkSet(maxLen) == SeqsUpTo(Bytes, maxLen)

\* Spec: a read delivers no byte or one; ConcSpec: a body is one byte
SmallChunkValues == {<<>>} \cup {<<b>> : b \in Bytes}
OneByteValues == {<<b>> : b \in Bytes}

\* ScenarioSpec: the payload served, and the headers sent with it
Payload == [i \in 1..PayloadLen |-> i]
ScenarioHeaders == {NoHeader, <<"1", "0">>}

\* content-length header values of the response: absent, or a string
Headers == {NoHeader, <<>>, <<"0">>, <<"2">>, <<"x">>, <<"2", "x">>, <<"0", "2">>}

\* Spec: no header, or a length
SeqHeaders == {NoHeader, <<"2">>}

Digits == {"0", "1", "2", "3", "4", "5", "6", "7", "8", "9"}
DigitVal(ch) ==
    CASE ch = "0" -> 0 [] ch = "1" -> 1 [] ch = "2" -> 2 [] ch = "3" -> 3
      [] ch = "4" -> 4 [] ch = "5" -> 5 [] ch = "6" -> 6 [] ch = "7" -> 7
      [] ch = "8" -> 8 [] ch = "9" -> 9

\* parseInt(s, 10): the value of the longest prefix of digits, NaN if none
RECURSIVE ParseDigits(_, _, _)
ParseDigits(s, i, acc) ==
    IF i > Len(s) \/ s[i] \notin Digits THEN acc
    ELSE ParseDigits(s, i + 1, acc * 10 + DigitVal(s[i]))

ParseInt(s) ==
    IF Len(s) = 0 \/ s[1] \notin Digits THEN NaN ELSE ParseDigits(s, 1, 0)

\* mutant: a missing length is replaced by a made-up one
TotalOfFabricated(contentLength) ==
    IF contentLength = NoHeader \/ contentLength = <<>> THEN 1
    ELSE ParseInt(contentLength)

\* const total = contentLength ? parseInt(contentLength, 10) : 0;
\* (a null header and the empty string are falsy)
TotalOf(contentLength) ==
    IF contentLength = NoHeader \/ contentLength = <<>> THEN 0
    ELSE ParseInt(contentLength)

\* total > 0 (false for NaN)
TotalPositive(t) == t # NaN /\ t > 0

\* mutant: received / total
PercentFraction(rcv, t) == [num |-> rcv, den |-> t]

\* (received / total) * 100, kept as the exact fraction num/den
Percent(rcv, t) == [num |-> rcv * 100, den |-> t]
PercentLE(p, q) == p.num * q.den <= q.num * p.den

(* --------------------------- buffer assembly --------------------------- *)
\* new ArrayBuffer(n): n zero bytes
NewArrayBuffer(n) == [i \in 1..n |-> 0]

\* view.set(chunk, position): copy chunk to offsets position.. (0-based)
ViewSet(view, chunk, position) ==
    [i \in 1..Len(view) |->
        IF i > position /\ i <= position + Len(chunk)
        THEN chunk[i - position] ELSE view[i]]

\* mutant: position is not advanced
RECURSIVE CombineFromNoAdvance(_, _, _, _)
CombineFromNoAdvance(view, chs, k, position) ==
    IF k > Len(chs) THEN view
    ELSE CombineFromNoAdvance(ViewSet(view, chs[k], position), chs, k + 1,
                              position)

\* for (const chunk of chunks) { view.set(chunk, position); position += chunk.length }
RECURSIVE CombineFrom(_, _, _, _)
CombineFrom(view, chs, k, position) ==
    IF k > Len(chs) THEN view
    ELSE CombineFrom(ViewSet(view, chs[k], position), chs, k + 1,
                     position + Len(chs[k]))

CombineChunks(chs, rcv) == CombineFrom(NewArrayBuffer(rcv), chs, 1, 0)

\* the concatenation of the chunks in arrival order (what the body was)
RECURSIVE Flatten(_)
Flatten(chs) == IF chs = <<>> THEN <<>> ELSE Head(chs) \o Flatten(Tail(chs))

RECURSIVE SumLen(_)
SumLen(chs) == IF chs = <<>> THEN 0 ELSE Len(Head(chs)) + SumLen(Tail(chs))

(* ------------------------------- texts --------------------------------- *)
\* A string the component reads character by character is a sequence of
\* tokens: Space is a whitespace character, a member of URLS is the run of
\* characters of an http(s) URL, a member of RelativePaths that of a path
\* starting with '/', every other token a character or run of characters.
Space == " "
RelativePaths == {"/m"}

\* the string a sequence of tokens spells
RECURSIVE Concat(_)
Concat(s) == IF s = <<>> THEN "" ELSE Head(s) \o Concat(Tail(s))

\* String.prototype.trim
RECURSIVE TrimStart(_)
TrimStart(s) ==
    IF s # <<>> /\ Head(s) = Space THEN TrimStart(Tail(s)) ELSE s
RECURSIVE TrimEnd(_)
TrimEnd(s) ==
    IF s # <<>> /\ s[Len(s)] = Space
    THEN TrimEnd(SubSeq(s, 1, Len(s) - 1)) ELSE s
Trim(s) == TrimEnd(TrimStart(s))

\* startsWith('/'), startsWith('http')
StartsWithSlash(s) == s # <<>> /\ s[1] \in RelativePaths
StartsWithHttp(s) == s # <<>> /\ s[1] \in URLS

\* what the user can have in the model URL input; the initial value
ModelUrlInputs ==
    {<<Space>>, <<"ftp">>, <<"/m">>, <<"u1">>, <<Space, "u1">>}
DefaultModelUrl == <<"u1">>

(* --------------------------- textUtils.ts ------------------------------ *)
\* characters of a text to speak: ',' is a punctuation mark, '1' a character
\* the symbol table lacks
WordChars == {"a", "A", "1"}
Punctuation == {","}

\* if (paddedTokens.length > 1000)
MaxPaddedTokens == 1000

Repeat(ch, n) == [i \in 1..n |-> ch]

\* what the user can have in the text area; the initial value
TextInputs ==
    {<<Space>>, <<"1">>, <<"A", ",", "a">>,
     Repeat("a", MaxPaddedTokens - 2), Repeat("a", MaxPaddedTokens - 1)}
DefaultText == <<"a">>

\* CHAR_MAP: the index of a character in [pad] + punctuation + letters + IPA
InCharMap(ch) == ch \in {",", Space, "A", "a"}
CharMap(ch) ==
    CASE ch = "," -> 3 [] ch = Space -> 16 [] ch = "A" -> 17 [] ch = "a" -> 43

\* simpleTokenizer: the index of every character the map has, the others
\* skipped
SimpleTokenizer(t) ==
    LET known == SelectSeq(t, InCharMap)
    IN  [i \in 1..Len(known) |-> CharMap(known[i])]

\* toLowerCase
ToLowerCase(t) == [i \in 1..Len(t) |-> IF t[i] = "A" THEN "a" ELSE t[i]]

\* replace(/\s+/g, ' '): the first character of every run of whitespace stays
KeptByReplace(p) == p.ch # Space \/ p.first
NormalizeWhitespace(t) ==
    LET marked == [i \in 1..Len(t) |->
                      [ch |-> t[i], first |-> i = 1 \/ t[i - 1] # Space]]
        kept == SelectSeq(marked, KeptByReplace)
    IN  [i \in 1..Len(kept) |-> kept[i].ch]

\* preprocessText: lower case, whitespace normalised and trimmed; the
\* abbreviations it expands all hold an apostrophe, which no text here has
PreprocessText(t) == Trim(NormalizeWhitespace(ToLowerCase(t)))

\* basicEnglishTokenize: text.match(/\w+|[^\w\s]/g): a word starts at a
\* punctuation mark, and at a word character that follows none
WordStart(t, i) ==
    \/ t[i] \in Punctuation
    \/ t[i] \in WordChars /\ (i = 1 \/ t[i - 1] \notin WordChars)

\* advancedTokenizer: the words of the lower-cased text joined by ' ', then
\* the index of every character the map has
IsCharacter(x) == x # ""
AdvancedTokenizer(t) ==
    LET low == ToLowerCase(t)
        \* slot 2i-1: the separator before a word that starts at i;
        \* slot 2i: the character at i unless it is whitespace
        slots == [k \in 1..(2 * Len(low)) |->
                    LET i == (k + 1) \div 2 IN
                    IF k % 2 = 1
                    THEN IF WordStart(low, i) THEN Space ELSE ""
                    ELSE IF low[i] = Space THEN "" ELSE low[i]]
        spaced == SelectSeq(slots, IsCharacter)
        phonemeText == IF spaced = <<>> THEN <<>> ELSE Tail(spaced)
    IN  SimpleTokenizer(phonemeText)

\* const paddedTokens = [0, ...tokens, 0]
PaddedTokens(tokens) == <<0>> \o tokens \o <<0>>

\* most object URLs created
MaxAudio == 3

(* ------------------------------- state --------------------------------- *)
VARIABLES
    store,        \* object store 'models': the CachedModel records it holds
    dbFault,      \* where the next storage operation will fail, if anywhere
    pc,           \* where each call of downloadAndCacheModel stands
    url,          \* its url argument
    onProgress,   \* whether the onProgress callback was supplied
    cachedData,   \* result of await getCachedModel(url)
    total,        \* parsed content-length
    chunks,       \* chunks pushed so far
    received,     \* bytes counted so far
    arrayBuffer,  \* the combined buffer
    result,       \* the ArrayBuffer the call resolved with
    progressLog,  \* values passed to onProgress, in order
    requests,     \* fetch(url) calls issued by this call
    puts,         \* store.put requests issued by this call
    failure,      \* how the network failed this call, if it did
    lastResolved, \* url and bytes of the call that resolved last
    storeBefore,  \* the store when the call of Spec and StreamSpec started
    contentLength, \* response.headers.get('content-length') of each call
    lastPut,      \* the call whose put for a url was applied last and has
                  \* not been evicted since, 0 if there is none
    schema,       \* version and object stores of the database 'KittenTTSCache'
    lastOp,       \* StoreSpec: the last direct call of a cache function and
                  \* what it gave
    cachedVoices, \* voiceLoader: the module-level dataset, null until loaded
    vpc,          \* where each call of loadVoices stands
    voices,       \* what each call of loadVoices resolved with
    vrequests,    \* fetch('/voices.json') calls issued by each call
    modelUrl,     \* KittenTTS: the text of the model URL input
    text,         \* the text to speak
    useAdvancedTokenizer, \* the 'Advanced processing' checkbox
    isLoading,
    isModelLoaded,
    error,
    currentModelUrl,
    downloadProgress,
    isCached,
    cacheInfo,
    cacheSize,
    sessionRef,
    voicesRef,
    audioUrl,     \* the object URL published, 0 for null
    loadPc,       \* where the loadModel in flight stands
    resolvedUrl,  \* its resolvedUrl
    modelData,    \* its modelData
    voicesPromise, \* the call of loadVoices it awaits
    updating,     \* modelUrl of each updateCacheInfo of the effect in flight
    evicting,     \* the per-entry evictions in flight
    clearing,     \* whether a Clear Cache handler is in flight
    genPc,        \* where the generateSpeech in flight stands
    closureAudioUrl, \* audioUrl as the memoized generateSpeech captured it
    currentAudioUrl, \* audioUrl as the generateSpeech in flight reads it
    objectUrls,   \* object URLs created so far: 1..objectUrls
    revoked       \* URL.revokeObjectURL calls made for each object URL

vars == <<store, dbFault, pc, url, onProgress, cachedData, total, chunks,
          received, arrayBuffer, result, progressLog, requests, puts, failure,
          lastResolved, storeBefore, contentLength, lastPut, schema, lastOp,
          cachedVoices, vpc, voices, vrequests,
          modelUrl, text, useAdvancedTokenizer, isLoading, isModelLoaded,
          error, currentModelUrl, downloadProgress, isCached, cacheInfo,
          cacheSize, sessionRef, voicesRef, audioUrl, loadPc, resolvedUrl,
          modelData, voicesPromise, updating, evicting,
          clearing, genPc, closureAudioUrl, currentAudioUrl, objectUrls,
          revoked>>

\* the state and refs of the KittenTTS component and of its handlers
loadView == <<isModelLoaded, currentModelUrl, downloadProgress, sessionRef,
              voicesRef>>
cacheView == <<isCached, cacheInfo, cacheSize>>
loadVars == <<loadPc, resolvedUrl, modelData, voicesPromise>>
refreshVars == <<updating, evicting, clearing>>
speechVars == <<text, useAdvancedTokenizer, audioUrl, genPc,
                closureAudioUrl, currentAudioUrl, objectUrls, revoked>>
uiVars == <<modelUrl, isLoading, error, loadView, cacheView, loadVars,
            refreshVars, speechVars>>

voiceVars == <<cachedVoices, vpc, voices, vrequests>>

\* the locals and observations of the calls of downloadAndCacheModel
callVars == <<pc, url, onProgress, cachedData, total, chunks, received,
              arrayBuffer, result, progressLog, requests, puts, failure,
              lastResolved, storeBefore, contentLength>>

\* const DB_VERSION = 1; const STORE_NAME = 'models'
DB_VERSION == 1
STORE_NAME == "models"

\* before the first indexedDB.open there is no database: version 0
NoDatabase == [version |-> 0, objectStoreNames |-> {}]

\* no cache function has been called directly
NoOp == [op |-> "none", url |-> Null, kind |-> "none", data |-> NullBuf,
         flag |-> FALSE, size |-> 0, tick |-> 0]

\* no call has resolved yet
NoCall == [url |-> Null, data |-> NullBuf]

\* mutant: the size field is not filled in
CachedModelNoSize(u, data, now) ==
    [url |-> u, data |-> data, timestamp |-> now, size |-> 0]

\* CachedModel { url, data, timestamp, size: data.byteLength }
CachedModel(u, data, now) ==
    [url |-> u, data |-> data, timestamp |-> now, size |-> Len(data)]

Init ==
    /\ store = {}
    /\ dbFault = "none"
    /\ pc = [c \in Calls |-> "idle"]
    /\ url = [c \in Calls |-> Null]
    /\ onProgress = [c \in Calls |-> FALSE]
    /\ cachedData = [c \in Calls |-> NullBuf]
    /\ total = [c \in Calls |-> 0]
    /\ chunks = [c \in Calls |-> <<>>]
    /\ received = [c \in Calls |-> 0]
    /\ arrayBuffer = [c \in Calls |-> NullBuf]
    /\ result = [c \in Calls |-> NullBuf]
    /\ progressLog = [c \in Calls |-> <<>>]
    /\ requests = [c \in Calls |-> 0]
    /\ puts = [c \in Calls |-> 0]
    /\ failure = [c \in Calls |-> "none"]
    /\ lastResolved = NoCall
    /\ storeBefore = {}
    /\ contentLength = [c \in Calls |-> NoHeader]
    /\ lastPut = [u \in URLS |-> 0]
    /\ schema = NoDatabase
    /\ lastOp = NoOp
    /\ cachedVoices = Null
    /\ vpc = [c \in Calls |-> "idle"]
    /\ voices = [c \in Calls |-> Null]
    /\ vrequests = [c \in Calls |-> 0]
    /\ modelUrl = DefaultModelUrl
    /\ text = DefaultText
    /\ useAdvancedTokenizer = FALSE
    /\ isLoading = FALSE
    /\ isModelLoaded = FALSE
    /\ error = Null
    /\ currentModelUrl = Null
    /\ downloadProgress = 0
    /\ isCached = FALSE
    /\ cacheInfo = <<>>
    /\ cacheSize = 0
    /\ sessionRef = Null
    /\ voicesRef = Null
    /\ audioUrl = 0
    /\ loadPc = "idle"
    /\ resolvedUrl = Null
    /\ modelData = NullBuf
    /\ voicesPromise = 0
    /\ updating = {Concat(DefaultModelUrl)}
    /\ evicting = {}
    /\ clearing = FALSE
    /\ genPc = "idle"
    /\ closureAudioUrl = 0
    /\ currentAudioUrl = 0
    /\ objectUrls = 0
    /\ revoked = [i \in 1..MaxAudio |-> 0]

(* ----------------------------- the store ------------------------------- *)
\* where a storage operation can fail: indexedDB.open, db.transaction, the
\* request itself (its onerror event), or the commit of the transaction
\* after its request succeeded (the transaction aborts, its writes are undone)
StoreFaults == {"none", "open", "transaction", "request", "commit"}

\* the database with its records
Database(sch, st) ==
    [version |-> sch.version, objectStoreNames |-> sch.objectStoreNames,
     records |-> st]
SchemaOf(db) ==
    [version |-> db.version, objectStoreNames |-> db.objectStoreNames]

\* mutant: the object store is created anew at every open
OpenDBRecreates(db, fault) ==
    IF fault = "open" THEN db
    ELSE [version |-> DB_VERSION,
          objectStoreNames |-> db.objectStoreNames \cup {STORE_NAME},
          records |-> {}]

\* openDB: indexedDB.open(DB_NAME, DB_VERSION); onupgradeneeded runs when the
\* stored version is lower and creates the object store unless it exists
OpenDB(db, fault) ==
    IF fault = "open" THEN db
    ELSE IF db.version < DB_VERSION
         THEN [version |-> DB_VERSION,
               objectStoreNames |->
                   IF STORE_NAME \in db.objectStoreNames
                   THEN db.objectStoreNames
                   ELSE db.objectStoreNames \cup {STORE_NAME},
               records |->
                   IF STORE_NAME \in db.objectStoreNames THEN db.records
                   ELSE {}]
         ELSE db

\* the database as the storage operation about to run finds it once opened
Opened == OpenDB(Database(schema, store), dbFault)

\* the back end is about to fail (quota, private mode, I/O error)
StorageCondition ==
    /\ dbFault = "none"
    /\ \E f \in StoreFaults \ {"none"} : dbFault' = f
    /\ UNCHANGED <<store, pc, url, onProgress, cachedData, total, chunks,
                   received, arrayBuffer, result, progressLog, requests, puts,
                   failure, lastResolved, storeBefore,
                   contentLength, lastPut,
                   schema, lastOp, voiceVars, uiVars>>

Resolve(v) == [kind |-> "resolve", value |-> v]
Reject == [kind |-> "reject", value |-> NullBuf]

\* the keys (keyPath 'url') of the records held
StoreKeys(st) == {r.url : r \in st}

\* store.get(u): a record whose key is u, undefined if there is none
NoRecord == [url |-> Null, data |-> NullBuf, timestamp |-> 0, size |-> 0]
StoreGet(st, u) ==
    IF \E r \in st : r.url = u THEN CHOOSE r \in st : r.url = u ELSE NoRecord

\* mutant: the lookup returns the first record of the store, not the one of u
GetAnyCachedModel(st, u, fault) ==
    IF fault \in {"open", "transaction"} THEN Resolve(NullBuf)
    ELSE IF fault = "request" THEN Reject
    ELSE Resolve(IF st # {} THEN (CHOOSE r \in st : TRUE).data ELSE NullBuf)

\* mutant: a failure of openDB is not caught
GetCachedModelThrows(st, u, fault) ==
    IF fault = "open" THEN Reject
    ELSE IF fault = "transaction" THEN Resolve(NullBuf)
    ELSE IF fault = "request" THEN Reject
    ELSE Resolve(LET r == StoreGet(st, u)
                 IN  IF r # NoRecord THEN r.data ELSE NullBuf)

\* getCachedModel: a failure of openDB or db.transaction is caught and gives
\* null; the request promise is returned without await, so its rejection
\* is not caught
GetCachedModel(st, u, fault) ==
    IF fault \in {"open", "transaction"} THEN Resolve(NullBuf)
    ELSE IF fault = "request" THEN Reject
    ELSE Resolve(LET r == StoreGet(st, u)
                 IN  IF r # NoRecord THEN r.data ELSE NullBuf)

\* mutant: a record of an empty buffer is reported as not cached
IsModelCachedNonEmpty(st, u, fault) ==
    LET r == GetCachedModel(st, u, fault)
    IN  IF r.kind = "reject" THEN FALSE
        ELSE r.value # NullBuf /\ Len(r.value) > 0

\* isModelCached: awaits getCachedModel inside try/catch
IsModelCached(st, u, fault) ==
    LET r == GetCachedModel(st, u, fault)
    IN  IF r.kind = "reject" THEN FALSE ELSE r.value # NullBuf

\* mutants: a put that leaves a record already there; a put that adds a
\* record beside the one already there
StorePutIfAbsent(st, rec) ==
    IF \E r \in st : r.url = rec.url THEN st ELSE st \cup {rec}
StorePutAdd(st, rec) == st \cup {rec}

\* mutant: a put that leaves only its own record in the store
StorePutOnly(st, rec) == {rec}

\* store.put(record): the record replaces the one with the same key (url)
StorePut(st, rec) == {r \in st : r.url # rec.url} \cup {rec}

\* mutant: the delete removes every record
StoreDeleteAll(st, u) == {}

\* mutant: the delete removes nothing
StoreDeleteNothing(st, u) == st

\* store.delete(u)
StoreDelete(st, u) == {r \in st : r.url # u}

\* mutant: the record is written without the last byte of the buffer
CacheModelStoreTruncated(st, u, data, now, fault) ==
    IF fault = "none"
    THEN StorePut(st, CachedModel(u, SubSeq(data, 1, Len(data) - 1), now))
    ELSE st

\* cacheModel: store.put(cachedModel); every failure rejects and leaves the
\* store as it was
CacheModelStore(st, u, data, now, fault) ==
    IF fault = "none" THEN StorePut(st, CachedModel(u, data, now)) ELSE st

\* the call whose put for u is the latest applied
LastPutAfter(lp, u, c, fault) ==
    IF fault = "none" THEN [lp EXCEPT ![u] = c] ELSE lp

\* store.put is reached unless openDB or db.transaction failed
PutIssued(fault) == fault \in {"none", "request", "commit"}

\* cacheModel settles on the events of the put request: it resolves on
\* request.onsuccess whether or not the transaction then commits
CacheModelResult(fault) ==
    IF fault \in {"none", "commit"} THEN "resolve" ELSE "reject"

\* clearCachedModel: store.delete(url)
ClearCachedModelStore(st, u, fault) ==
    IF fault = "none" THEN StoreDelete(st, u) ELSE st

\* clearCachedModel settles by the request alone: deleting a key that has
\* no record succeeds; every failure is rethrown
ClearCachedModelResult(st, u, fault) ==
    IF fault \in {"none", "commit"} THEN "resolve" ELSE "reject"

\* clearAllCache: store.clear()
ClearAllCacheStore(st, fault) ==
    IF fault = "none" THEN {} ELSE st

(* ---------------------------- introspection --------------------------- *)
\* the keys in the order of the store's index
KeyOrder ==
    CHOOSE s \in [1..Cardinality(URLS) -> URLS] :
        \A i, j \in DOMAIN s : i # j => s[i] # s[j]

RECURSIVE SeqOfSet(_)
SeqOfSet(S) ==
    IF S = {} THEN <<>>
    ELSE LET x == CHOOSE y \in S : TRUE IN <<x>> \o SeqOfSet(S \ {x})

\* store.getAll(): the records in key order
RECURSIVE GetAllFrom(_, _)
GetAllFrom(st, k) ==
    IF k > Len(KeyOrder) THEN <<>>
    ELSE SeqOfSet({r \in st : r.url = KeyOrder[k]}) \o GetAllFrom(st, k + 1)
StoreGetAll(st) == GetAllFrom(st, 1)

\* CacheInfo { url, timestamp, size }
CacheInfo(model) ==
    [url |-> model.url, timestamp |-> model.timestamp, size |-> model.size]

\* getCacheInfo: results.map(...); a failure of openDB or db.transaction is
\* caught and gives [], a failed request rejects
GetCacheInfo(st, fault) ==
    IF fault \in {"open", "transaction"} THEN Resolve(<<>>)
    ELSE IF fault = "request" THEN Reject
    ELSE LET results == StoreGetAll(st)
         IN  Resolve([i \in 1..Len(results) |-> CacheInfo(results[i])])

\* cacheInfo.reduce((total, info) => total + info.size, 0)
RECURSIVE ReduceSize(_, _, _)
ReduceSize(infos, i, acc) ==
    IF i > Len(infos) THEN acc
    ELSE ReduceSize(infos, i + 1, acc + infos[i].size)

\* mutant: the entries are counted, not their sizes added
GetCacheSizeCount(st, fault) ==
    LET r == GetCacheInfo(st, fault)
    IN  IF r.kind = "reject" THEN 0 ELSE Len(r.value)

\* getCacheSize: awaits getCacheInfo inside try/catch, 0 when it rejects
GetCacheSize(st, fault) ==
    LET r == GetCacheInfo(st, fault)
    IN  IF r.kind = "reject" THEN 0 ELSE ReduceSize(r.value, 1, 0)

(* ---------------------- downloadAndCacheModel -------------------------- *)
Quiescent == \A c \in Calls : pc[c] = "idle"

\* a caller invokes downloadAndCacheModel(u, cb): up to the first await
Start(c, u, cb, snapshot) ==
    /\ pc[c] = "idle"
    /\ pc' = [pc EXCEPT ![c] = "lookup"]
    /\ url' = [url EXCEPT ![c] = u]
    /\ onProgress' = [onProgress EXCEPT ![c] = cb]
    /\ storeBefore' = IF snapshot THEN store ELSE storeBefore
    /\ UNCHANGED <<store, dbFault, cachedData, total, chunks, received,
                   arrayBuffer, result, progressLog, requests, puts, failure,
                   lastResolved,
                   contentLength, lastPut,
                   schema, lastOp, voiceVars, uiVars>>

\* mutants of the hit test: an empty buffer taken for a miss; no early return
IsHitNonEmpty(data) == data # NullBuf /\ Len(data) > 0
IsHitNever(data) == FALSE

\* if (cachedData): an ArrayBuffer is truthy whatever its length
IsHit(data) == data # NullBuf

\* mutant: a hit stamps the record anew
LookupRefreshes(c) ==
    /\ pc[c] = "lookup"
    /\ LET r == GetCachedModel(Opened.records, url[c], dbFault) IN
        IF r.kind = "reject"
        THEN /\ pc' = [pc EXCEPT ![c] = "rejected"]
             /\ UNCHANGED <<cachedData, result, requests, lastResolved>>
        ELSE /\ cachedData' = [cachedData EXCEPT ![c] = r.value]
             /\ IF IsHit(r.value)
                THEN /\ result' = [result EXCEPT ![c] = r.value]
                     /\ lastResolved' = [url |-> url[c], data |-> r.value]
                     /\ pc' = [pc EXCEPT ![c] = "resolved"]
                     /\ UNCHANGED requests
                ELSE /\ requests' = [requests EXCEPT ![c] = @ + 1]
                     /\ pc' = [pc EXCEPT ![c] = "fetch"]
                     /\ UNCHANGED <<result, lastResolved>>
    /\ schema' = SchemaOf(Opened)
    /\ dbFault' = "none"
    /\ store' = {IF r.url = url[c] THEN [r EXCEPT !.timestamp = 3 - @] ELSE r :
                   r \in Opened.records}
    /\ UNCHANGED <<url, onProgress, total, chunks, received,
                   arrayBuffer, progressLog, puts, failure, storeBefore,
                   contentLength, lastPut,
                   lastOp, voiceVars, uiVars>>

\* const cachedData = await getCachedModel(url); if (cachedData) return it;
\* otherwise fetch(url) is called
Lookup(c) ==
    /\ pc[c] = "lookup"
    /\ LET r == GetCachedModel(Opened.records, url[c], dbFault) IN
        IF r.kind = "reject"
        THEN /\ pc' = [pc EXCEPT ![c] = "rejected"]
             /\ UNCHANGED <<cachedData, result, requests, lastResolved>>
        ELSE /\ cachedData' = [cachedData EXCEPT ![c] = r.value]
             /\ IF IsHit(r.value)
                THEN /\ result' = [result EXCEPT ![c] = r.value]
                     /\ lastResolved' = [url |-> url[c], data |-> r.value]
                     /\ pc' = [pc EXCEPT ![c] = "resolved"]
                     /\ UNCHANGED requests
                ELSE /\ requests' = [requests EXCEPT ![c] = @ + 1]
                     /\ pc' = [pc EXCEPT ![c] = "fetch"]
                     /\ UNCHANGED <<result, lastResolved>>
    /\ schema' = SchemaOf(Opened)
    /\ dbFault' = "none"
    /\ store' = Opened.records
    /\ UNCHANGED <<url, onProgress, total, chunks, received,
                   arrayBuffer, progressLog, puts, failure, storeBefore,
                   contentLength, lastPut,
                   lastOp, voiceVars, uiVars>>

\* mutant: the status of the response is not looked at
AfterResponseIgnoresStatus(ok, hasBody) ==
    IF ~hasBody THEN "rejected" ELSE "read"

\* if (!response.ok) throw ...; if (!response.body) throw ...
AfterResponse(ok, hasBody) ==
    IF ~ok THEN "rejected" ELSE IF ~hasBody THEN "rejected" ELSE "read"

\* mutant: a failed request is issued once more
FetchErrorRetries(c) ==
    /\ pc[c] = "fetch"
    /\ IF requests[c] < 2
       THEN /\ requests' = [requests EXCEPT ![c] = @ + 1]
            /\ UNCHANGED <<pc, failure>>
       ELSE /\ pc' = [pc EXCEPT ![c] = "rejected"]
            /\ failure' = [failure EXCEPT ![c] = "network"]
            /\ UNCHANGED requests
    /\ UNCHANGED <<store, dbFault, url, onProgress, cachedData, total, chunks,
                   received, arrayBuffer, result, progressLog,
                   puts, lastResolved, storeBefore, contentLength, lastPut,
                   schema, lastOp, voiceVars, uiVars>>

\* fetch(url) rejects: the location is unreachable
FetchError(c) ==
    /\ pc[c] = "fetch"
    /\ pc' = [pc EXCEPT ![c] = "rejected"]
    /\ failure' = [failure EXCEPT ![c] = "network"]
    /\ UNCHANGED <<store, dbFault, url, onProgress, cachedData, total, chunks,
                   received, arrayBuffer, result, progressLog, requests,
                   puts, lastResolved, storeBefore,
                   contentLength, lastPut,
                   schema, lastOp, voiceVars, uiVars>>

\* await fetch(url) gives a response whose status, content-length header and
\* body the server chose
Response(c, ok, header, hasBody) ==
    /\ pc[c] = "fetch"
    /\ pc' = [pc EXCEPT ![c] = AfterResponse(ok, hasBody)]
    /\ contentLength' = [contentLength EXCEPT ![c] = IF ok THEN header ELSE @]
    /\ total' = [total EXCEPT ![c] = IF ok THEN TotalOf(header) ELSE @]
    /\ failure' = [failure EXCEPT ![c] =
                      IF ~ok THEN "status" ELSE IF ~hasBody THEN "body" ELSE @]
    /\ UNCHANGED <<store, dbFault, url, onProgress, cachedData, chunks,
                   received, arrayBuffer, result, progressLog, requests,
                   puts, lastResolved, storeBefore, lastPut,
                   schema, lastOp, voiceVars, uiVars>>

\* mutant: received = value.length
AddReceivedOverwrite(rcv, value) == Len(value)

\* received += value.length
AddReceived(rcv, value) == rcv + Len(value)

\* if (onProgress && total > 0) onProgress((received / total) * 100)
ReportProgress(log, cb, rcv, t) ==
    IF cb /\ TotalPositive(t) THEN Append(log, Percent(rcv, t)) ELSE log

\* mutant: every chunk is written to the store as it arrives
ReadChunkWriteThrough(c, value) ==
    /\ pc[c] = "read"
    /\ chunks' = [chunks EXCEPT ![c] = Append(@, value)]
    /\ received' = [received EXCEPT ![c] = AddReceived(@, value)]
    /\ progressLog' = [progressLog EXCEPT ![c] =
          ReportProgress(@, onProgress[c], AddReceived(received[c], value),
                         total[c])]
    /\ store' = CacheModelStore(store, url[c], Flatten(Append(chunks[c], value)),
                                1, "none")
    /\ puts' = [puts EXCEPT ![c] = 1]
    /\ lastPut' = LastPutAfter(lastPut, url[c], c, "none")
    /\ UNCHANGED <<dbFault, pc, url, onProgress, cachedData, total,
                   arrayBuffer, result, requests, failure,
                   lastResolved, storeBefore, contentLength,
                   schema, lastOp, voiceVars, uiVars>>

\* await reader.read() gives { done: false, value }
ReadChunk(c, value) ==
    /\ pc[c] = "read"
    /\ chunks' = [chunks EXCEPT ![c] = Append(@, value)]
    /\ received' = [received EXCEPT ![c] = AddReceived(@, value)]
    /\ progressLog' = [progressLog EXCEPT ![c] =
          ReportProgress(@, onProgress[c], AddReceived(received[c], value),
                         total[c])]
    /\ UNCHANGED <<store, dbFault, pc, url, onProgress, cachedData, total,
                   arrayBuffer, result, requests, puts, failure,
                   lastResolved, storeBefore,
                   contentLength, lastPut,
                   schema, lastOp, voiceVars, uiVars>>

\* await reader.read() gives { done: true }: combine the chunks, then call
\* cacheModel, which suspends in openDB
ReadDone(c) ==
    /\ pc[c] = "read"
    /\ arrayBuffer' = [arrayBuffer EXCEPT ![c] =
                          CombineChunks(chunks[c], received[c])]
    /\ pc' = [pc EXCEPT ![c] = "cache"]
    /\ UNCHANGED <<store, dbFault, url, onProgress, cachedData, total, chunks,
                   received, result, progressLog, requests, puts, failure,
                   lastResolved, storeBefore,
                   contentLength, lastPut,
                   schema, lastOp, voiceVars, uiVars>>

\* mutant: the bytes received before the abort are cached
ReadErrorCachesPartial(c) ==
    /\ pc[c] = "read"
    /\ pc' = [pc EXCEPT ![c] = "rejected"]
    /\ failure' = [failure EXCEPT ![c] = "stream"]
    /\ store' = CacheModelStore(Opened.records, url[c],
                                CombineChunks(chunks[c], received[c]), 1,
                                dbFault)
    /\ puts' = [puts EXCEPT ![c] = IF PutIssued(dbFault) THEN @ + 1 ELSE @]
    /\ lastPut' = LastPutAfter(lastPut, url[c], c, dbFault)
    /\ schema' = SchemaOf(Opened)
    /\ dbFault' = "none"
    /\ UNCHANGED <<url, onProgress, cachedData, total, chunks,
                   received, arrayBuffer, result, progressLog, requests,
                   lastResolved, storeBefore,
                   contentLength,
                   lastOp, voiceVars, uiVars>>

\* mutant: the abort evicts the record of the url
ReadErrorEvicts(c) ==
    /\ pc[c] = "read"
    /\ pc' = [pc EXCEPT ![c] = "rejected"]
    /\ failure' = [failure EXCEPT ![c] = "stream"]
    /\ store' = ClearCachedModelStore(Opened.records, url[c], dbFault)
    /\ lastPut' = IF dbFault = "none" THEN [lastPut EXCEPT ![url[c]] = 0]
                ELSE lastPut
    /\ schema' = SchemaOf(Opened)
    /\ dbFault' = "none"
    /\ UNCHANGED <<url, onProgress, cachedData, total, chunks,
                   received, arrayBuffer, result, progressLog, requests,
                   puts, lastResolved, storeBefore,
                   contentLength,
                   lastOp, voiceVars, uiVars>>

\* await reader.read() rejects: the stream aborted; nothing catches it
ReadError(c) ==
    /\ pc[c] = "read"
    /\ pc' = [pc EXCEPT ![c] = "rejected"]
    /\ failure' = [failure EXCEPT ![c] = "stream"]
    /\ UNCHANGED <<store, dbFault, url, onProgress, cachedData, total, chunks,
                   received, arrayBuffer, result, progressLog, requests,
                   puts, lastResolved, storeBefore,
                   contentLength, lastPut,
                   schema, lastOp, voiceVars, uiVars>>

\* mutant: a failure of cacheModel is not caught
CacheRethrows(c, now) ==
    /\ pc[c] = "cache"
    /\ store' = CacheModelStore(Opened.records, url[c], arrayBuffer[c], now, dbFault)
    /\ puts' = [puts EXCEPT ![c] = IF PutIssued(dbFault) THEN @ + 1 ELSE @]
    /\ IF CacheModelResult(dbFault) = "resolve"
       THEN /\ result' = [result EXCEPT ![c] = arrayBuffer[c]]
            /\ lastResolved' = [url |-> url[c], data |-> arrayBuffer[c]]
            /\ pc' = [pc EXCEPT ![c] = "resolved"]
       ELSE /\ pc' = [pc EXCEPT ![c] = "rejected"]
            /\ UNCHANGED <<result, lastResolved>>
    /\ lastPut' = LastPutAfter(lastPut, url[c], c, dbFault)
    /\ schema' = SchemaOf(Opened)
    /\ dbFault' = "none"
    /\ UNCHANGED <<url, onProgress, cachedData, total, chunks,
                   received, arrayBuffer, progressLog, requests, failure,
                   storeBefore,
                   contentLength,
                   lastOp, voiceVars, uiVars>>

\* try { await cacheModel(url, arrayBuffer) } catch { warn }; return arrayBuffer
Cache(c, now) ==
    /\ pc[c] = "cache"
    /\ store' = CacheModelStore(Opened.records, url[c], arrayBuffer[c], now, dbFault)
    /\ puts' = [puts EXCEPT ![c] = IF PutIssued(dbFault) THEN @ + 1 ELSE @]
    /\ result' = [result EXCEPT ![c] = arrayBuffer[c]]
    /\ lastResolved' = [url |-> url[c], data |-> arrayBuffer[c]]
    /\ pc' = [pc EXCEPT ![c] = "resolved"]
    /\ lastPut' = LastPutAfter(lastPut, url[c], c, dbFault)
    /\ schema' = SchemaOf(Opened)
    /\ dbFault' = "none"
    /\ UNCHANGED <<url, onProgress, cachedData, total, chunks,
                   received, arrayBuffer, progressLog, requests, failure,
                   storeBefore,
                   contentLength,
                   lastOp, voiceVars, uiVars>>

\* the caller takes the outcome; the locals of the call are gone
Return(c) ==
    /\ pc[c] \in {"resolved", "rejected"}
    /\ pc' = [pc EXCEPT ![c] = "idle"]
    /\ url' = [url EXCEPT ![c] = Null]
    /\ onProgress' = [onProgress EXCEPT ![c] = FALSE]
    /\ cachedData' = [cachedData EXCEPT ![c] = NullBuf]
    /\ total' = [total EXCEPT ![c] = 0]
    /\ chunks' = [chunks EXCEPT ![c] = <<>>]
    /\ received' = [received EXCEPT ![c] = 0]
    /\ arrayBuffer' = [arrayBuffer EXCEPT ![c] = NullBuf]
    /\ result' = [result EXCEPT ![c] = NullBuf]
    /\ progressLog' = [progressLog EXCEPT ![c] = <<>>]
    /\ requests' = [requests EXCEPT ![c] = 0]
    /\ puts' = [puts EXCEPT ![c] = 0]
    /\ failure' = [failure EXCEPT ![c] = "none"]
    /\ contentLength' = [contentLength EXCEPT ![c] = NoHeader]
    /\ UNCHANGED <<store, dbFault, lastResolved, storeBefore, lastPut,
                   schema, lastOp, voiceVars, uiVars>>

(* ------------------------------ eviction ------------------------------- *)
ClearCachedModelStep(u) ==
    /\ store' = ClearCachedModelStore(Opened.records, u, dbFault)
    /\ lastPut' = IF dbFault = "none" THEN [lastPut EXCEPT ![u] = 0]
                ELSE lastPut
    /\ schema' = SchemaOf(Opened)
    /\ dbFault' = "none"
    /\ UNCHANGED <<callVars, voiceVars, uiVars>>

ClearCachedModel(u) == ClearCachedModelStep(u) /\ UNCHANGED lastOp

ClearAllCacheStep ==
    /\ store' = ClearAllCacheStore(Opened.records, dbFault)
    /\ lastPut' = IF dbFault = "none" THEN [u \in URLS |-> 0] ELSE lastPut
    /\ schema' = SchemaOf(Opened)
    /\ dbFault' = "none"
    /\ UNCHANGED <<callVars, voiceVars, uiVars>>

ClearAllCache == ClearAllCacheStep /\ UNCHANGED lastOp

(* ------------------- the cache functions called directly --------------- *)
\* what a direct call gave; tick tells one call from the next
Op(name, u, kind, data, flag, size) ==
    [op |-> name, url |-> u, kind |-> kind, data |-> data, flag |-> flag,
     size |-> size, tick |-> 1 - lastOp.tick]

\* await cacheModel(u, data)
ApiCacheModel(u, data, now) ==
    /\ store' = CacheModelStore(Opened.records, u, data, now, dbFault)
    /\ lastOp' = Op("cacheModel", u, CacheModelResult(dbFault), data, FALSE, 0)
    /\ schema' = SchemaOf(Opened)
    /\ dbFault' = "none"
    /\ UNCHANGED <<callVars, lastPut, voiceVars, uiVars>>

\* await getCachedModel(u)
ApiGetCachedModel(u) ==
    /\ LET r == GetCachedModel(Opened.records, u, dbFault)
       IN  lastOp' = Op("getCachedModel", u, r.kind, r.value, FALSE, 0)
    /\ store' = Opened.records
    /\ schema' = SchemaOf(Opened)
    /\ dbFault' = "none"
    /\ UNCHANGED <<callVars, lastPut, voiceVars, uiVars>>

\* await isModelCached(u)
ApiIsModelCached(u) ==
    /\ lastOp' = Op("isModelCached", u, "resolve", NullBuf,
                    IsModelCached(Opened.records, u, dbFault), 0)
    /\ store' = Opened.records
    /\ schema' = SchemaOf(Opened)
    /\ dbFault' = "none"
    /\ UNCHANGED <<callVars, lastPut, voiceVars, uiVars>>

\* await getCacheSize()
ApiGetCacheSize ==
    /\ lastOp' = Op("getCacheSize", Null, "resolve", NullBuf, FALSE,
                    GetCacheSize(Opened.records, dbFault))
    /\ store' = Opened.records
    /\ schema' = SchemaOf(Opened)
    /\ dbFault' = "none"
    /\ UNCHANGED <<callVars, lastPut, voiceVars, uiVars>>

\* await clearCachedModel(u)
ApiClearCachedModel(u) ==
    /\ ClearCachedModelStep(u)
    /\ lastOp' = Op("clearCachedModel", u,
                    ClearCachedModelResult(Opened.records, u, dbFault),
                    NullBuf, FALSE, 0)

\* await clearAllCache()
ApiClearAllCache ==
    /\ ClearAllCacheStep
    /\ lastOp' = Op("clearAllCache", Null,
                    ClearCachedModelResult(Opened.records, Null, dbFault),
                    NullBuf, FALSE, 0)

(* --------------------------- specifications ---------------------------- *)
\* Spec: the exported functions used one at a time: a call of
\* downloadAndCacheModel runs from its start to its return with no other
\* call and no eviction in between
SeqStart == \E u \in URLS, cb \in BOOLEAN : Start(1, u, cb, TRUE)
SeqLookup == Lookup(1)
SeqFetchError == FetchError(1)
SeqResponse ==
    \E ok \in BOOLEAN, header \in SeqHeaders, hasBody \in BOOLEAN :
        Response(1, ok, header, hasBody)
SeqReadChunk ==
    /\ Len(chunks[1]) < SmallChunks
    /\ \E value \in SmallChunkValues : ReadChunk(1, value)
SeqReadDone == ReadDone(1)
SeqReadError == ReadError(1)
SeqCache == \E now \in Times : Cache(1, now)
SeqReturn == Return(1)
SeqClearCachedModel == Quiescent /\ \E u \in URLS : ClearCachedModel(u)
SeqClearAllCache == Quiescent /\ ClearAllCache
\* a fault shows at the storage operation that comes next
SeqStorageCondition ==
    /\ pc[1] \in {"idle", "lookup", "cache"}
    /\ StorageCondition

Next ==
    \/ SeqStart
    \/ SeqLookup
    \/ SeqFetchError
    \/ SeqResponse
    \/ SeqReadChunk
    \/ SeqReadDone
    \/ SeqReadError
    \/ SeqCache
    \/ SeqReturn
    \/ SeqClearCachedModel
    \/ SeqClearAllCache
    \/ SeqStorageCondition

Spec == Init /\ [][Next]_vars

\* StreamSpec: one download into the empty store, every chunking
StreamStart ==
    /\ store = {}
    /\ \E cb \in BOOLEAN : Start(1, "u1", cb, TRUE)
StreamLookup == Lookup(1)
StreamFetchError == FetchError(1)
StreamResponse ==
    \E ok \in BOOLEAN, header \in Headers, hasBody \in BOOLEAN :
        Response(1, ok, header, hasBody)
StreamReadChunk ==
    /\ Len(chunks[1]) < MaxChunks
    /\ \E value \in ChunkSet(MaxChunkLen) : ReadChunk(1, value)
StreamReadDone == ReadDone(1)
StreamReadError == ReadError(1)
StreamCache == \E now \in Times : Cache(1, now)
StreamStorageCondition ==
    /\ pc[1] \in {"lookup", "cache"}
    /\ StorageCondition

StreamNext ==
    \/ StreamStart
    \/ StreamLookup
    \/ StreamFetchError
    \/ StreamResponse
    \/ StreamReadChunk
    \/ StreamReadDone
    \/ StreamReadError
    \/ StreamCache
    \/ StreamStorageCondition

StreamSpec == Init /\ [][StreamNext]_vars

\* ConcSpec: callers that overlap, each making one call; a body is one chunk
\* of one byte
ConcStart == \E c \in Calls, u \in URLS : Start(c, u, FALSE, FALSE)
ConcLookup == \E c \in Calls : Lookup(c)
ConcFetchError == \E c \in Calls : FetchError(c)
ConcResponse ==
    \E c \in Calls, ok \in BOOLEAN, hasBody \in BOOLEAN :
        Response(c, ok, NoHeader, hasBody)
ConcReadChunk ==
    \E c \in Calls :
        /\ chunks[c] = <<>>
        /\ \E value \in OneByteValues : ReadChunk(c, value)
ConcReadDone == \E c \in Calls : chunks[c] # <<>> /\ ReadDone(c)
ConcReadError == \E c \in Calls : ReadError(c)
ConcCache == \E c \in Calls, now \in Times : Cache(c, now)
ConcClearCachedModel == \E u \in URLS : ClearCachedModel(u)
ConcClearAllCache == ClearAllCache
ConcStorageCondition == StorageCondition

ConcNext ==
    \/ ConcStart
    \/ ConcLookup
    \/ ConcFetchError
    \/ ConcResponse
    \/ ConcReadChunk
    \/ ConcReadDone
    \/ ConcReadError
    \/ ConcCache
    \/ ConcClearCachedModel
    \/ ConcClearAllCache
    \/ ConcStorageCondition

ConcSpec == Init /\ [][ConcNext]_vars

\* ScenarioSpec: one download of Payload into the empty store, cut into
\* reads of up to MaxRead bytes, and the eviction of its record afterwards
ScenStart ==
    /\ store = {}
    /\ \E cb \in BOOLEAN : Start(1, "u1", cb, TRUE)
ScenLookup == Lookup(1)
ScenFetchError == FetchError(1)
ScenResponse ==
    \E ok \in BOOLEAN, header \in ScenarioHeaders, hasBody \in BOOLEAN :
        Response(1, ok, header, hasBody)
ScenReadChunk ==
    \E k \in 1..MaxRead :
        /\ received[1] + k <= PayloadLen
        /\ ReadChunk(1, SubSeq(Payload, received[1] + 1, received[1] + k))
ScenReadDone == received[1] = PayloadLen /\ ReadDone(1)
ScenReadError == ReadError(1)
ScenCache == \E now \in Times : Cache(1, now)
ScenClearCachedModel == pc[1] = "resolved" /\ ClearCachedModel("u1")
ScenStorageCondition ==
    /\ pc[1] \in {"lookup", "cache", "resolved"}
    /\ StorageCondition

ScenarioNext ==
    \/ ScenStart
    \/ ScenLookup
    \/ ScenFetchError
    \/ ScenResponse
    \/ ScenReadChunk
    \/ ScenReadDone
    \/ ScenReadError
    \/ ScenCache
    \/ ScenClearCachedModel
    \/ ScenStorageCondition

ScenarioSpec == Init /\ [][ScenarioNext]_vars

(* ------------------------------ loadVoices ---------------------------- *)
\* the objects response.json() can yield for '/voices.json'
VoiceSets == {"v1", "v2", "v3"}

\* everything of the model cache, which voiceLoader does not touch
cacheVars == <<store, dbFault, callVars, lastPut, schema, lastOp>>

\* mutant: the module-level dataset is never taken as loaded
VoicesCachedNever(cv) == FALSE

\* if (cachedVoices); areVoicesLoaded(): cachedVoices !== null
VoicesCached(cv) == cv # Null

\* getAvailableVoiceIds(): the keys of the dataset, [] while there is none
VoiceIds(dataset) ==
    IF dataset \in {"v1", "v2"} THEN {"expr-voice-2-f", "expr-voice-2-m"}
    ELSE {"expr-voice-2-m"}
GetAvailableVoiceIds(cv) == IF VoicesCached(cv) THEN VoiceIds(cv) ELSE {}

\* loadVoices(): return cachedVoices if set, otherwise call fetch
LoadVoices(c) ==
    /\ vpc[c] = "idle"
    /\ IF VoicesCached(cachedVoices)
       THEN /\ voices' = [voices EXCEPT ![c] = cachedVoices]
            /\ vpc' = [vpc EXCEPT ![c] = "resolved"]
            /\ UNCHANGED vrequests
       ELSE /\ vrequests' = [vrequests EXCEPT ![c] = @ + 1]
            /\ vpc' = [vpc EXCEPT ![c] = "fetch"]
            /\ UNCHANGED voices
    /\ UNCHANGED <<cachedVoices, cacheVars, uiVars>>

\* mutant: a failed fetch leaves an empty dataset behind
VoicesFetchErrorCached(c) ==
    /\ vpc[c] = "fetch"
    /\ vpc' = [vpc EXCEPT ![c] = "rejected"]
    /\ cachedVoices' = "v3"
    /\ UNCHANGED <<voices, vrequests, cacheVars, uiVars>>

\* fetch rejects: caught, 'Failed to load voice embeddings' is thrown
VoicesFetchError(c) ==
    /\ vpc[c] = "fetch"
    /\ vpc' = [vpc EXCEPT ![c] = "rejected"]
    /\ UNCHANGED <<cachedVoices, voices, vrequests, cacheVars, uiVars>>

\* the response arrives; if (!response.ok) throw
VoicesResponse(c, ok) ==
    /\ vpc[c] = "fetch"
    /\ vpc' = [vpc EXCEPT ![c] = IF ok THEN "json" ELSE "rejected"]
    /\ UNCHANGED <<cachedVoices, voices, vrequests, cacheVars, uiVars>>

\* const voices = await response.json(); cachedVoices = voices; return voices
VoicesJson(c, v) ==
    /\ vpc[c] = "json"
    /\ cachedVoices' = v
    /\ voices' = [voices EXCEPT ![c] = v]
    /\ vpc' = [vpc EXCEPT ![c] = "resolved"]
    /\ UNCHANGED <<vrequests, cacheVars, uiVars>>

\* response.json() rejects: the body is not JSON
VoicesJsonError(c) ==
    /\ vpc[c] = "json"
    /\ vpc' = [vpc EXCEPT ![c] = "rejected"]
    /\ UNCHANGED <<cachedVoices, voices, vrequests, cacheVars, uiVars>>

\* the caller takes the outcome
VoicesReturn(c) ==
    /\ vpc[c] \in {"resolved", "rejected"}
    /\ vpc' = [vpc EXCEPT ![c] = "idle"]
    /\ voices' = [voices EXCEPT ![c] = Null]
    /\ vrequests' = [vrequests EXCEPT ![c] = 0]
    /\ UNCHANGED <<cachedVoices, cacheVars, uiVars>>

\* VoiceSpec: callers of loadVoices that can overlap
VoiceLoad == \E c \in Calls : LoadVoices(c)
VoiceFetchError == \E c \in Calls : VoicesFetchError(c)
VoiceResponse == \E c \in Calls, ok \in BOOLEAN : VoicesResponse(c, ok)
VoiceJson == \E c \in Calls, v \in VoiceSets : VoicesJson(c, v)
VoiceJsonError == \E c \in Calls : VoicesJsonError(c)
VoiceReturn == \E c \in Calls : VoicesReturn(c)

VoiceNext ==
    \/ VoiceLoad
    \/ VoiceFetchError
    \/ VoiceResponse
    \/ VoiceJson
    \/ VoiceJsonError
    \/ VoiceReturn

VoiceSpec == Init /\ [][VoiceNext]_vars

\* StoreSpec: the exported cache functions called directly, one at a time
DirectCacheModel ==
    \E u \in URLS, data \in SmallChunkValues, now \in Times :
        ApiCacheModel(u, data, now)
DirectGetCachedModel == \E u \in URLS : ApiGetCachedModel(u)
DirectIsModelCached == \E u \in URLS : ApiIsModelCached(u)
DirectGetCacheSize == ApiGetCacheSize
DirectClearCachedModel == \E u \in URLS : ApiClearCachedModel(u)
DirectClearAllCache == ApiClearAllCache
DirectStorageCondition == StorageCondition

StoreNext ==
    \/ DirectCacheModel
    \/ DirectGetCachedModel
    \/ DirectIsModelCached
    \/ DirectGetCacheSize
    \/ DirectClearCachedModel
    \/ DirectClearAllCache
    \/ DirectStorageCondition

StoreSpec == Init /\ [][StoreNext]_vars

(* ------------------------ the KittenTTS component ---------------------- *)
\* values the onProgress callback of a download can pass
ProgressValues == {50, 150}

\* the model data a download can deliver
ModelPayloads == {<<1>>}

\* datasets that hold an embedding for the selected voice
ValidVoiceSets == {"v1", "v2"}

\* the component: the datasets served, the values of Date.now()
UiVoiceSets == {"v1", "v3"}
UiTimes == {1}

\* new Error(...) thrown by the validation of the model URL, null if it passes
ValidateUrl(input) ==
    LET resolved == Trim(input) IN
    IF resolved = <<>> THEN "Model URL cannot be empty"
    ELSE IF ~StartsWithSlash(resolved) /\ ~StartsWithHttp(resolved)
         THEN "Model URL must be either a relative path or a full HTTP(S) URL"
         ELSE Null

\* Promise.all([getCacheInfo(), getCacheSize(), isModelCached(u)])
CacheReads(st, u, fault) ==
    [info |-> GetCacheInfo(st, fault), size |-> GetCacheSize(st, fault),
     cached |-> IsModelCached(st, u, fault)]

\* clearAllCache settles by the request alone; every failure is rethrown
ClearAllCacheResult(fault) ==
    IF fault \in {"none", "commit"} THEN "resolve" ELSE "reject"

\* the storage operation of this step has run
StorageUsed ==
    /\ schema' = SchemaOf(Opened)
    /\ dbFault' = "none"

\* the user edits the model URL input (or presses the quick URL button) once
\* the last updateCacheInfo has completed; the effect of [modelUrl] then
\* starts updateCacheInfo with the new value
SetModelUrl(input) ==
    /\ ~isModelLoaded
    /\ input # modelUrl
    /\ updating = {}
    /\ modelUrl' = input
    /\ updating' = updating \cup {Concat(input)}
    /\ UNCHANGED <<cacheVars, voiceVars, isLoading, error, loadView,
                   cacheView, loadVars, evicting, clearing, speechVars>>

\* updateCacheInfo of the effect completes: the three reads, then the three
\* setters; a rejection is logged
UpdateCacheInfo(u) ==
    /\ u \in updating
    /\ updating' = updating \ {u}
    /\ LET r == CacheReads(Opened.records, u, dbFault) IN
        IF r.info.kind = "reject" THEN UNCHANGED cacheView
        ELSE /\ cacheInfo' = r.info.value
             /\ cacheSize' = r.size
             /\ isCached' = r.cached
    /\ store' = Opened.records
    /\ StorageUsed
    /\ UNCHANGED <<callVars, lastPut, lastOp, voiceVars, modelUrl, isLoading,
                   error, loadView, loadVars, evicting, clearing, speechVars>>

\* loadVoices() up to its first await, as LoadVoices(c)
LoadVoicesBegin(c) ==
    IF VoicesCached(cachedVoices)
    THEN /\ voices' = [voices EXCEPT ![c] = cachedVoices]
         /\ vpc' = [vpc EXCEPT ![c] = "resolved"]
         /\ UNCHANGED vrequests
    ELSE /\ vrequests' = [vrequests EXCEPT ![c] = @ + 1]
         /\ vpc' = [vpc EXCEPT ![c] = "fetch"]
         /\ UNCHANGED voices

\* the call slot a new loadVoices() takes
FreeCall == CHOOSE c \in Calls : vpc[c] = "idle" /\ \A k \in 1..(c - 1) : vpc[k] # "idle"

\* mutant: the catch leaves the progress where the download had brought it
LoadCaughtKeepsProgress(message) ==
    /\ error' = message
    /\ currentModelUrl' = Null
    /\ UNCHANGED downloadProgress
    /\ isLoading' = FALSE
    /\ loadPc' = "idle"
    /\ resolvedUrl' = Null
    /\ modelData' = NullBuf
    /\ voicesPromise' = 0

\* catch (err) { setError; setCurrentModelUrl(null); setDownloadProgress(0) }
\* finally { setIsLoading(false) }
LoadCaught(message) ==
    /\ error' = message
    /\ currentModelUrl' = Null
    /\ downloadProgress' = 0
    /\ isLoading' = FALSE
    /\ loadPc' = "idle"
    /\ resolvedUrl' = Null
    /\ modelData' = NullBuf
    /\ voicesPromise' = 0

\* mutant: a URL that fails the validation is loaded all the same
LoadModelUnvalidated ==
    /\ ~isModelLoaded /\ ~isLoading /\ Trim(modelUrl) # <<>>
    /\ \A c \in Calls : vpc[c] = "idle"
    /\ isLoading' = TRUE
    /\ error' = Null
    /\ downloadProgress' = 0
    /\ resolvedUrl' = Concat(Trim(modelUrl))
    /\ voicesPromise' = FreeCall
    /\ LoadVoicesBegin(FreeCall)
    /\ loadPc' = IF StartsWithHttp(Trim(modelUrl)) THEN "lookup" ELSE "fetch"
    /\ UNCHANGED <<currentModelUrl, modelData, cachedVoices>>
    /\ UNCHANGED <<cacheVars, modelUrl, isModelLoaded, sessionRef, voicesRef,
                   cacheView, refreshVars, speechVars>>

\* the Load button (rendered until a model is loaded, disabled while loading
\* or when the URL is blank), pressed when no loadVoices() of an earlier
\* attempt is still in flight, runs loadModel up to its first await
LoadModel ==
    /\ ~isModelLoaded /\ ~isLoading /\ Trim(modelUrl) # <<>>
    /\ \A c \in Calls : vpc[c] = "idle"
    /\ IF ValidateUrl(modelUrl) # Null
       THEN /\ LoadCaught(ValidateUrl(modelUrl))
            /\ UNCHANGED voiceVars
       ELSE /\ isLoading' = TRUE
            /\ error' = Null
            /\ downloadProgress' = 0
            /\ resolvedUrl' = Concat(Trim(modelUrl))
            /\ voicesPromise' = FreeCall
            /\ LoadVoicesBegin(FreeCall)
            /\ loadPc' = IF StartsWithHttp(Trim(modelUrl)) THEN "lookup"
                         ELSE "fetch"
            /\ UNCHANGED <<currentModelUrl, modelData, cachedVoices>>
    /\ UNCHANGED <<cacheVars, modelUrl, isModelLoaded, sessionRef, voicesRef,
                   cacheView, refreshVars, speechVars>>

\* downloadAndCacheModel: await getCachedModel(url); a hit is the model data,
\* a miss calls fetch, a rejection leaves loadModel through its catch
LoadLookup ==
    /\ loadPc = "lookup"
    /\ LET r == GetCachedModel(Opened.records, resolvedUrl, dbFault) IN
        IF r.kind = "reject"
        THEN LoadCaught("Unknown error")
        ELSE IF IsHit(r.value)
        THEN /\ modelData' = r.value
             /\ loadPc' = "session"
             /\ UNCHANGED <<isLoading, error, currentModelUrl,
                            downloadProgress, resolvedUrl, voicesPromise>>
        ELSE /\ loadPc' = "fetch"
             /\ UNCHANGED <<isLoading, error, currentModelUrl,
                            downloadProgress, resolvedUrl, voicesPromise,
                            modelData>>
    /\ store' = Opened.records
    /\ StorageUsed
    /\ UNCHANGED <<callVars, lastPut, lastOp, voiceVars, modelUrl,
                   isModelLoaded, sessionRef, voicesRef, cacheView,
                   refreshVars, speechVars>>

\* (progress) => setDownloadProgress(progress), during a download
LoadProgress(p) ==
    /\ loadPc = "fetch"
    /\ resolvedUrl \in URLS
    /\ downloadProgress' = p
    /\ UNCHANGED <<cacheVars, voiceVars, modelUrl, isLoading, error,
                   isModelLoaded, currentModelUrl, sessionRef, voicesRef,
                   cacheView, loadVars, refreshVars, speechVars>>

\* mutant: the body fetched from a relative path is cached as well
LoadFetchedCachesAll(ok, data) ==
    /\ loadPc = "fetch"
    /\ IF ~ok
       THEN LoadCaught("Failed to fetch")
       ELSE /\ modelData' = data
            /\ loadPc' = "cache"
            /\ UNCHANGED <<isLoading, error, currentModelUrl,
                           downloadProgress, resolvedUrl, voicesPromise>>
    /\ UNCHANGED <<cacheVars, voiceVars, modelUrl, isModelLoaded, sessionRef,
                   voicesRef, cacheView, refreshVars, speechVars>>

\* the fetch of the model fails (rejection, status, stream), or the body has
\* arrived
LoadFetched(ok, data) ==
    /\ loadPc = "fetch"
    /\ IF ~ok
       THEN LoadCaught("Failed to fetch")
       ELSE /\ modelData' = data
            /\ loadPc' = IF resolvedUrl \in URLS THEN "cache" ELSE "session"
            /\ UNCHANGED <<isLoading, error, currentModelUrl,
                           downloadProgress, resolvedUrl, voicesPromise>>
    /\ UNCHANGED <<cacheVars, voiceVars, modelUrl, isModelLoaded, sessionRef,
                   voicesRef, cacheView, refreshVars,
                   speechVars>>

\* downloadAndCacheModel: try { await cacheModel(url, arrayBuffer) } catch
\* { warn }; return arrayBuffer
LoadCache(now) ==
    /\ loadPc = "cache"
    /\ store' = CacheModelStore(Opened.records, resolvedUrl, modelData, now,
                                dbFault)
    /\ lastPut' = LastPutAfter(lastPut, resolvedUrl, 1, dbFault)
    /\ loadPc' = "session"
    /\ StorageUsed
    /\ UNCHANGED <<callVars, lastOp, voiceVars, modelUrl, isLoading, error,
                   loadView, cacheView, resolvedUrl, modelData,
                   voicesPromise, refreshVars, speechVars>>

\* await ort.InferenceSession.create(modelData, ...)
LoadSessionCreated(ok) ==
    /\ loadPc = "session"
    /\ IF ok
       THEN /\ loadPc' = "voices"
            /\ UNCHANGED <<isLoading, error, currentModelUrl,
                           downloadProgress, resolvedUrl, modelData,
                           voicesPromise>>
       ELSE LoadCaught("Failed to create the session")
    /\ UNCHANGED <<cacheVars, voiceVars, modelUrl, isModelLoaded, sessionRef,
                   voicesRef, cacheView, refreshVars,
                   speechVars>>

\* mutant: the model is taken as loaded without the voices
LoadVoicesAwaitedUnchecked ==
    /\ loadPc = "voices"
    /\ vpc[voicesPromise] \in {"resolved", "rejected"}
    /\ sessionRef' = "session"
    /\ voicesRef' = voices[voicesPromise]
    /\ isModelLoaded' = TRUE
    /\ currentModelUrl' = resolvedUrl
    /\ downloadProgress' = 100
    /\ loadPc' = "refresh"
    /\ UNCHANGED <<isLoading, error, resolvedUrl, modelData, voicesPromise>>
    /\ vpc' = [vpc EXCEPT ![voicesPromise] = "idle"]
    /\ voices' = [voices EXCEPT ![voicesPromise] = Null]
    /\ vrequests' = [vrequests EXCEPT ![voicesPromise] = 0]
    /\ UNCHANGED <<cacheVars, cachedVoices, modelUrl, cacheView,
                   refreshVars, speechVars>>

\* const voices = await voicesPromise; then the refs and the state are set
LoadVoicesAwaited ==
    /\ loadPc = "voices"
    /\ vpc[voicesPromise] \in {"resolved", "rejected"}
    /\ IF vpc[voicesPromise] = "resolved"
       THEN /\ sessionRef' = "session"
            /\ voicesRef' = voices[voicesPromise]
            /\ isModelLoaded' = TRUE
            /\ currentModelUrl' = resolvedUrl
            /\ downloadProgress' = 100
            /\ loadPc' = "refresh"
            /\ UNCHANGED <<isLoading, error, resolvedUrl, modelData,
                           voicesPromise>>
       ELSE /\ LoadCaught("Failed to load voice embeddings")
            /\ UNCHANGED <<sessionRef, voicesRef, isModelLoaded>>
    /\ vpc' = [vpc EXCEPT ![voicesPromise] = "idle"]
    /\ voices' = [voices EXCEPT ![voicesPromise] = Null]
    /\ vrequests' = [vrequests EXCEPT ![voicesPromise] = 0]
    /\ UNCHANGED <<cacheVars, cachedVoices, modelUrl, cacheView,
                   refreshVars, speechVars>>

\* mutant: isLoading is not reset when the last step of loadModel fails
LoadRefreshedNoFinally ==
    /\ loadPc = "refresh"
    /\ LET r == CacheReads(Opened.records, resolvedUrl, dbFault) IN
        IF r.info.kind = "reject"
        THEN /\ error' = "Unknown error"
             /\ currentModelUrl' = Null
             /\ downloadProgress' = 0
             /\ UNCHANGED <<cacheView, isLoading>>
        ELSE /\ cacheInfo' = r.info.value
             /\ cacheSize' = r.size
             /\ isCached' = r.cached
             /\ isLoading' = FALSE
             /\ UNCHANGED <<error, currentModelUrl, downloadProgress>>
    /\ loadPc' = "idle"
    /\ resolvedUrl' = Null
    /\ modelData' = NullBuf
    /\ voicesPromise' = 0
    /\ store' = Opened.records
    /\ StorageUsed
    /\ UNCHANGED <<callVars, lastPut, lastOp, voiceVars, modelUrl,
                   isModelLoaded, sessionRef, voicesRef,
                   refreshVars, speechVars>>

\* the cache info is read again and set; a rejection goes through the catch
LoadRefreshed ==
    /\ loadPc = "refresh"
    /\ LET r == CacheReads(Opened.records, resolvedUrl, dbFault) IN
        IF r.info.kind = "reject"
        THEN /\ error' = "Unknown error"
             /\ currentModelUrl' = Null
             /\ downloadProgress' = 0
             /\ UNCHANGED cacheView
        ELSE /\ cacheInfo' = r.info.value
             /\ cacheSize' = r.size
             /\ isCached' = r.cached
             /\ UNCHANGED <<error, currentModelUrl, downloadProgress>>
    /\ isLoading' = FALSE
    /\ loadPc' = "idle"
    /\ resolvedUrl' = Null
    /\ modelData' = NullBuf
    /\ voicesPromise' = 0
    /\ store' = Opened.records
    /\ StorageUsed
    /\ UNCHANGED <<callVars, lastPut, lastOp, voiceVars, modelUrl,
                   isModelLoaded, sessionRef, voicesRef,
                   refreshVars, speechVars>>

\* a loadVoices() that loadModel left behind when it failed settles unseen
VoicesAbandoned(c) ==
    /\ ~(loadPc # "idle" /\ voicesPromise = c)
    /\ VoicesReturn(c)

\* the Clear Cache button: rendered with the Load button while cacheSize > 0,
\* disabled while loading
ClearCacheClick ==
    /\ ~isModelLoaded /\ cacheSize > 0 /\ ~isLoading
    /\ ~clearing
    /\ clearing' = TRUE
    /\ UNCHANGED <<cacheVars, voiceVars, modelUrl, isLoading, error,
                   loadView, cacheView, loadVars, updating, evicting,
                   speechVars>>

\* await clearAllCache(); the info and the size are read again;
\* setIsCached(false); a rejection is logged
ClearCacheDone ==
    /\ clearing
    /\ clearing' = FALSE
    /\ store' = ClearAllCacheStore(Opened.records, dbFault)
    /\ lastPut' = IF dbFault = "none" THEN [u \in URLS |-> 0] ELSE lastPut
    /\ IF ClearAllCacheResult(dbFault) = "reject" THEN UNCHANGED cacheView
       ELSE /\ cacheInfo' = GetCacheInfo(store', "none").value
            /\ cacheSize' = GetCacheSize(store', "none")
            /\ isCached' = FALSE
    /\ StorageUsed
    /\ UNCHANGED <<callVars, lastOp, voiceVars, modelUrl, isLoading, error,
                   loadView, loadVars, updating, evicting, speechVars>>

\* the button of entry i of the list of cached models (never disabled)
EvictClick(i) ==
    /\ cacheSize > 0
    /\ i \in 1..Len(cacheInfo)
    /\ evicting = {}
    /\ evicting' = {[target |-> cacheInfo[i].url,
                     modelUrl |-> Concat(modelUrl)]}
    /\ UNCHANGED <<cacheVars, voiceVars, modelUrl, isLoading, error,
                   loadView, cacheView, loadVars, updating, clearing,
                   speechVars>>

\* await clearCachedModel(info.url); the three reads with the modelUrl of
\* the render the button belonged to; a rejection is logged
EvictDone(e) ==
    /\ e \in evicting
    /\ evicting' = evicting \ {e}
    /\ store' = ClearCachedModelStore(Opened.records, e.target, dbFault)
    /\ lastPut' = IF dbFault = "none" /\ e.target \in URLS
                  THEN [lastPut EXCEPT ![e.target] = 0] ELSE lastPut
    /\ IF ClearCachedModelResult(Opened.records, e.target, dbFault) = "reject"
       THEN UNCHANGED cacheView
       ELSE LET r == CacheReads(store', e.modelUrl, "none") IN
            /\ cacheInfo' = r.info.value
            /\ cacheSize' = r.size
            /\ isCached' = r.cached
    /\ StorageUsed
    /\ UNCHANGED <<callVars, lastOp, voiceVars, modelUrl, isLoading, error,
                   loadView, loadVars, updating, clearing, speechVars>>

\* the user edits the text; generateSpeech is memoized on [text,
\* selectedVoice, speed, useAdvancedTokenizer], so the render creates it
\* anew and it captures the audioUrl of that render
SetText(t) ==
    /\ isModelLoaded
    /\ t # text
    /\ text' = t
    /\ closureAudioUrl' = audioUrl
    /\ UNCHANGED <<cacheVars, voiceVars, modelUrl, isLoading, error,
                   loadView, cacheView, loadVars, refreshVars,
                   useAdvancedTokenizer, audioUrl, genPc, currentAudioUrl,
                   objectUrls, revoked>>

\* the 'Advanced processing' checkbox
SetUseAdvancedTokenizer ==
    /\ isModelLoaded
    /\ useAdvancedTokenizer' = ~useAdvancedTokenizer
    /\ closureAudioUrl' = audioUrl
    /\ UNCHANGED <<cacheVars, voiceVars, modelUrl, isLoading, error,
                   loadView, cacheView, loadVars, refreshVars, text,
                   audioUrl, genPc, currentAudioUrl, objectUrls, revoked>>

\* the tokens generateSpeech computes
Tokens(t, advanced) ==
    IF advanced THEN AdvancedTokenizer(PreprocessText(t))
    ELSE SimpleTokenizer(PreprocessText(t))

\* getVoiceEmbedding throws unless the dataset has the voice; the embedding
\* must have 256 values
EmbeddingValid(dataset) == dataset \in ValidVoiceSets

\* mutant: the length of the padded token list is not checked
SpeechErrorNoLimit(session, dataset, t, advanced) ==
    IF session = Null THEN "Model not loaded"
    ELSE IF dataset = Null THEN "Voice embeddings not loaded"
    ELSE IF Trim(t) = <<>> THEN "Please enter some text"
    ELSE IF Len(Tokens(t, advanced)) = 0
         THEN "No valid tokens found in text"
    ELSE IF ~EmbeddingValid(dataset) THEN "Invalid voice embedding"
    ELSE Null

\* what stops generateSpeech before the inference, null if nothing does
SpeechError(session, dataset, t, advanced) ==
    IF session = Null THEN "Model not loaded"
    ELSE IF dataset = Null THEN "Voice embeddings not loaded"
    ELSE IF Trim(t) = <<>> THEN "Please enter some text"
    ELSE IF Len(Tokens(t, advanced)) = 0
         THEN "No valid tokens found in text"
    ELSE IF Len(PaddedTokens(Tokens(t, advanced))) > MaxPaddedTokens
         THEN "Text too long - please use shorter text"
    ELSE IF ~EmbeddingValid(dataset) THEN "Invalid voice embedding"
    ELSE Null

\* the Generate button (rendered once a model is loaded, disabled while
\* loading or when the text is blank) runs generateSpeech up to
\* await sessionRef.current.run(inputs)
GenerateSpeech ==
    /\ isModelLoaded /\ ~isLoading /\ Trim(text) # <<>>
    /\ objectUrls < MaxAudio
    /\ LET stop == SpeechError(sessionRef, voicesRef, text,
                               useAdvancedTokenizer) IN
        IF stop # Null
        THEN /\ error' = stop
             /\ UNCHANGED <<isLoading, genPc, currentAudioUrl>>
        ELSE /\ isLoading' = TRUE
             /\ error' = Null
             /\ genPc' = "run"
             /\ currentAudioUrl' = closureAudioUrl
    /\ UNCHANGED <<cacheVars, voiceVars, modelUrl, loadView, cacheView,
                   loadVars, refreshVars, text, useAdvancedTokenizer,
                   audioUrl, closureAudioUrl, objectUrls, revoked>>

\* mutant: the URL published before is revoked whatever the closure holds
RevokedAfterFresh(rev, stale, published) ==
    IF published # 0 THEN [rev EXCEPT ![published] = @ + 1] ELSE rev

\* if (currentAudioUrl) URL.revokeObjectURL(currentAudioUrl), where
\* currentAudioUrl is the audioUrl the callback captured
RevokedAfter(rev, stale, published) ==
    IF stale # 0 THEN [rev EXCEPT ![stale] = @ + 1] ELSE rev

\* the inference has run: the audio is published under a new object URL,
\* or the error is caught; finally { setIsLoading(false) }
GenerateRan(ok) ==
    /\ genPc = "run"
    /\ genPc' = "idle"
    /\ isLoading' = FALSE
    /\ currentAudioUrl' = 0
    /\ IF ok
       THEN /\ objectUrls' = objectUrls + 1
            /\ revoked' = RevokedAfter(revoked, currentAudioUrl, audioUrl)
            /\ audioUrl' = objectUrls + 1
            /\ UNCHANGED error
       ELSE /\ error' = "Inference failed"
            /\ UNCHANGED <<objectUrls, revoked, audioUrl>>
    /\ UNCHANGED <<cacheVars, voiceVars, modelUrl, loadView, cacheView,
                   loadVars, refreshVars, text, useAdvancedTokenizer,
                   closureAudioUrl>>

\* UiSpec: loading a model and watching the cache, with the user, the
\* network and the store as the environment
UiSetModelUrl == \E input \in ModelUrlInputs : SetModelUrl(input)
UiUpdateCacheInfo == \E u \in updating : UpdateCacheInfo(u)
UiLoadModel == LoadModel
UiLoadLookup == LoadLookup
UiLoadProgress == \E p \in ProgressValues : LoadProgress(p)
UiLoadFetched ==
    \E ok \in BOOLEAN, data \in ModelPayloads : LoadFetched(ok, data)
UiLoadCache == \E now \in UiTimes : LoadCache(now)
UiLoadSessionCreated == \E ok \in BOOLEAN : LoadSessionCreated(ok)
UiLoadVoicesAwaited == LoadVoicesAwaited
UiLoadRefreshed == LoadRefreshed
UiVoicesFetchError == \E c \in Calls : VoicesFetchError(c)
UiVoicesResponse == \E c \in Calls, ok \in BOOLEAN : VoicesResponse(c, ok)
UiVoicesJson == \E c \in Calls, v \in UiVoiceSets : VoicesJson(c, v)
UiVoicesJsonError == \E c \in Calls : VoicesJsonError(c)
UiVoicesAbandoned == \E c \in Calls : VoicesAbandoned(c)
UiClearCacheClick == ClearCacheClick
UiClearCacheDone == ClearCacheDone
UiEvictClick == \E i \in 1..Len(cacheInfo) : EvictClick(i)
UiEvictDone == \E e \in evicting : EvictDone(e)
UiStorageCondition ==
    loadPc \in {"lookup", "cache", "refresh"} /\ StorageCondition

UiNext ==
    \/ UiSetModelUrl
    \/ UiUpdateCacheInfo
    \/ UiLoadModel
    \/ UiLoadLookup
    \/ UiLoadProgress
    \/ UiLoadFetched
    \/ UiLoadCache
    \/ UiLoadSessionCreated
    \/ UiLoadVoicesAwaited
    \/ UiLoadRefreshed
    \/ UiVoicesFetchError
    \/ UiVoicesResponse
    \/ UiVoicesJson
    \/ UiVoicesJsonError
    \/ UiVoicesAbandoned
    \/ UiClearCacheClick
    \/ UiClearCacheDone
    \/ UiEvictClick
    \/ UiEvictDone
    \/ UiStorageCondition

UiSpec == Init /\ [][UiNext]_vars

\* SpeechSpec: the default model is loaded, then the user edits the text
\* and generates speech
UiSetText == \E t \in TextInputs \cup {DefaultText} : SetText(t)
UiSetUseAdvancedTokenizer == SetUseAdvancedTokenizer
UiGenerateSpeech == GenerateSpeech
UiGenerateRan == \E ok \in BOOLEAN : GenerateRan(ok)

SpeechNext ==
    \/ UiUpdateCacheInfo
    \/ UiLoadModel
    \/ UiLoadLookup
    \/ UiLoadFetched
    \/ UiLoadCache
    \/ UiLoadSessionCreated
    \/ UiLoadVoicesAwaited
    \/ UiLoadRefreshed
    \/ UiVoicesFetchError
    \/ UiVoicesResponse
    \/ UiVoicesJson
    \/ UiVoicesJsonError
    \/ UiVoicesAbandoned
    \/ UiStorageCondition
    \/ UiSetText
    \/ UiSetUseAdvancedTokenizer
    \/ UiGenerateSpeech
    \/ UiGenerateRan

SpeechSpec == Init /\ [][SpeechNext]_vars

\* LiveSpec: SpeechSpec where every operation awaited by loadModel and
\* generateSpeech eventually completes or fails
LiveSpec ==
    /\ Init /\ [][SpeechNext]_vars
    /\ WF_vars(UiLoadLookup)
    /\ WF_vars(UiLoadFetched)
    /\ WF_vars(UiLoadCache)
    /\ WF_vars(UiLoadSessionCreated)
    /\ WF_vars(UiLoadVoicesAwaited)
    /\ WF_vars(UiLoadRefreshed)
    /\ WF_vars(UiVoicesFetchError \/ UiVoicesResponse)
    /\ WF_vars(UiVoicesJson \/ UiVoicesJsonError)
    /\ WF_vars(UiGenerateRan)

(* ------------------------------- claims -------------------------------- *)
\* fetch(u) calls made by the calls in flight or finished (ConcSpec: a slot
\* makes one call)
RECURSIVE RequestsFrom(_, _)
RequestsFrom(u, c) ==
    IF c > NumCalls THEN 0
    ELSE (IF url[c] = u THEN requests[c] ELSE 0) + RequestsFrom(u, c + 1)
RequestsFor(u) == RequestsFrom(u, 1)

\* C1 as stated: once a call for a url has resolved, the call for that url
\* that follows issues no request and resolves with the same bytes.
C1_IdempotentHit_AsStated ==
    [][\A c \in Calls :
        (pc[c] = "lookup" /\ lastResolved.url = url[c])
        => /\ requests'[c] = requests[c]
           /\ (pc'[c] = "resolved" => result'[c] = lastResolved.data)]_vars

\* C1 amended: a call whose store write succeeds leaves a record holding the
\* bytes it returned, and while a record is in the store every call whose
\* lookup does not fail resolves at once with the bytes of the record and
\* issues no network request.
C1_IdempotentHit ==
    [][\A c \in Calls :
        /\ (pc[c] = "cache" /\ pc'[c] # "cache" /\ dbFault = "none")
           => /\ pc'[c] = "resolved"
              /\ url[c] \in StoreKeys(store')
              /\ StoreGet(store', url[c]).data = result'[c]
        /\ (pc[c] = "lookup" /\ pc'[c] # "lookup" /\ dbFault = "none"
              /\ url[c] \in StoreKeys(store))
           => /\ pc'[c] = "resolved"
              /\ result'[c] = StoreGet(store, url[c]).data
              /\ requests'[c] = 0]_vars

\* a second call for a url resolved from the record the first one wrote
C1_Witness ==
    \E c \in Calls :
        /\ pc[c] = "resolved"
        /\ requests[c] = 0
        /\ url[c] \in StoreKeys(store)
        /\ result[c] = StoreGet(store, url[c]).data
        /\ lastResolved = [url |-> url[c], data |-> result[c]]

\* C2 as stated: the network is requested at most once for each url.
C2_AtMostOnce_AsStated == \A u \in URLS : RequestsFor(u) <= 1

\* C2 amended: a call requests the network at most once and only when its
\* own lookup gave no record, so the requests for a url never outnumber the
\* calls for it whose lookup gave null; overlapping calls each request it.
C2_RequestOnlyOnMiss ==
    \A u \in URLS :
        RequestsFor(u) <=
            Cardinality({c \in Calls : /\ url[c] = u
                                       /\ pc[c] \notin {"idle", "lookup"}
                                       /\ cachedData[c] = NullBuf})

\* two overlapping calls for one url have both requested it
C2_Witness ==
    \E u \in URLS : RequestsFor(u) = 2 /\ \A c \in {1, 2} : url[c] = u

\* C3: a download of an uncached url that fails by its status or by the
\* stream aborting issues no put, and afterwards the store has no record of
\* the url and isModelCached(url) is false.
C3_NoCachingOnFailure ==
    \A c \in Calls :
        (/\ pc[c] = "rejected"
         /\ failure[c] \in {"status", "stream"}
         /\ url[c] \notin StoreKeys(storeBefore))
        => /\ puts[c] = 0
           /\ url[c] \notin StoreKeys(store)
           /\ \A f \in StoreFaults : ~IsModelCached(store, url[c], f)

\* the stream aborted after a chunk with bytes had been received
C3_Witness ==
    \E c \in Calls :
        /\ pc[c] = "rejected"
        /\ failure[c] = "stream"
        /\ received[c] > 0
        /\ url[c] \notin StoreKeys(storeBefore)

\* C4: when the download completed and the store write fails, the call
\* resolves with exactly the downloaded bytes, the store is unchanged and
\* isModelCached(url), if false before, is false after.
C4_WriteFailureResilience ==
    [][\A c \in Calls :
        (pc[c] = "cache" /\ pc'[c] # "cache" /\ dbFault # "none")
        => /\ pc'[c] = "resolved"
           /\ result'[c] = Flatten(chunks[c])
           /\ store' = store
           /\ (~IsModelCached(store, url[c], "none")
               => \A f \in StoreFaults : ~IsModelCached(store', url[c], f))]_vars

\* a call resolved with downloaded bytes that did not reach the store
C4_Witness ==
    \E c \in Calls :
        /\ pc[c] = "resolved"
        /\ requests[c] = 1
        /\ Len(result[c]) > 0
        /\ result[c] = Flatten(chunks[c])
        /\ url[c] \notin StoreKeys(store)

\* C5: when a call has rejected, the store is exactly what it was when the
\* call started.
C5_FailedCallFrame == \A c \in Calls : pc[c] = "rejected" => store = storeBefore

\* a call rejected mid-stream while the store held a record
C5_Witness ==
    \E c \in Calls :
        /\ pc[c] = "rejected"
        /\ received[c] > 0
        /\ storeBefore # {}
        /\ store = storeBefore

\* C6: a response that is not OK, a missing body and a failed chunk read
\* each reject the call; it never resolves and returns no buffer.
C6_NetworkFailureSurfaced ==
    \A c \in Calls :
        failure[c] \in {"status", "body", "stream"}
        => pc[c] = "rejected" /\ result[c] = NullBuf

\* a read failed after bytes had arrived, and the call rejected
C6_Witness ==
    \E c \in Calls :
        /\ failure[c] = "stream"
        /\ chunks[c] # <<>>
        /\ pc[c] = "rejected"

\* C7: on a miss the returned buffer is as long as the chunks together and
\* is their concatenation in arrival order.
C7_ByteExactness ==
    \A c \in Calls :
        (pc[c] = "resolved" /\ requests[c] = 1)
        => /\ Len(result[c]) = SumLen(chunks[c])
           /\ result[c] = Flatten(chunks[c])

\* a body of two different chunks, the first of two bytes, was returned
C7_Witness ==
    \E c \in Calls :
        /\ pc[c] = "resolved"
        /\ requests[c] = 1
        /\ Len(chunks[c]) = 2
        /\ Len(chunks[c][1]) = 2
        /\ chunks[c][2] # <<>>
        /\ chunks[c][1] # chunks[c][2]
        /\ result[c] = chunks[c][1] \o chunks[c][2]

\* C8: the values passed to onProgress within one download never decrease.
C8_ProgressMonotonic ==
    \A c \in Calls :
        \A i, j \in 1..Len(progressLog[c]) :
            i < j => PercentLE(progressLog[c][i], progressLog[c][j])

\* two reports, the second larger than the first
C8_Witness ==
    \E c \in Calls :
        /\ Len(progressLog[c]) = 2
        /\ ~PercentLE(progressLog[c][2], progressLog[c][1])

\* C9: when a total was advertised and the download completed, the last
\* value passed to onProgress is exactly 100.
C9_FinalProgress_AsStated ==
    \A c \in Calls :
        (/\ pc[c] = "resolved"
         /\ requests[c] = 1
         /\ TotalPositive(total[c])
         /\ progressLog[c] # <<>>)
        => LET last == progressLog[c][Len(progressLog[c])]
           IN  last.num = 100 * last.den

\* C10: a call that found a record resolves with the stored bytes and has
\* not invoked onProgress.
C10_HitNoProgress ==
    \A c \in Calls :
        (pc[c] = "resolved" /\ cachedData[c] # NullBuf)
        => /\ progressLog[c] = <<>>
           /\ url[c] \in StoreKeys(store)
           /\ result[c] = StoreGet(store, url[c]).data

\* a hit of a call that supplied onProgress
C10_Witness ==
    \E c \in Calls :
        /\ pc[c] = "resolved"
        /\ cachedData[c] # NullBuf
        /\ onProgress[c]
        /\ Len(result[c]) > 0
        /\ progressLog[c] = <<>>

\* C11: a download whose response carried no content-length header never
\* invokes onProgress, however many chunks arrive.
C11_NoLengthNoProgress ==
    \A c \in Calls :
        (pc[c] \notin {"idle", "lookup", "fetch"} /\ contentLength[c] = NoHeader)
        => progressLog[c] = <<>>

\* two chunks with bytes arrived without a header, for a caller that
\* supplied onProgress
C11_Witness ==
    \E c \in Calls :
        /\ pc[c] = "resolved"
        /\ requests[c] = 1
        /\ onProgress[c]
        /\ contentLength[c] = NoHeader
        /\ Len(chunks[c]) = 2
        /\ \A i \in 1..2 : chunks[c][i] # <<>>
        /\ progressLog[c] = <<>>

\* C12: one call issues at most one network request and at most one store
\* put, whatever fails; a response that is not OK fails the call at once,
\* with no chunk read.
C12_NoRetry ==
    \A c \in Calls :
        /\ requests[c] <= 1
        /\ puts[c] <= 1
        /\ failure[c] = "status"
           => /\ pc[c] = "rejected"
              /\ chunks[c] = <<>>
              /\ received[c] = 0
              /\ puts[c] = 0

\* a call failed on the status of its one request
C12_Witness ==
    \E c \in Calls :
        /\ pc[c] = "rejected"
        /\ failure[c] = "status"
        /\ requests[c] = 1
        /\ chunks[c] = <<>>

\* the lookup of call c found no record and the call went on to download
Missed(c) ==
    /\ pc[c] \in {"fetch", "read", "cache", "resolved", "rejected"}
    /\ cachedData[c] = NullBuf
    /\ ~(pc[c] = "rejected" /\ failure[c] = "none")

\* the records of the store whose key is u
RecordsOf(st, u) == {r \in st : r.url = u}

\* C13: two calls for one url that both found it uncached each make their
\* own request; each one that completes returns its own downloaded bytes and
\* issues its put; the store then holds exactly one record for the url, with
\* the bytes of the call whose put was applied last.
C13_SameIdentityLastPutWins ==
    /\ [](\A c, d \in Calls :
            (c # d /\ url[c] = url[d] /\ Missed(c) /\ Missed(d))
            => /\ requests[c] = 1
               /\ pc[c] = "resolved" => result[c] = Flatten(chunks[c])
               /\ lastPut[url[c]] = c
                  => /\ pc[c] = "resolved"
                     /\ Cardinality(RecordsOf(store, url[c])) = 1
                     /\ StoreGet(store, url[c]).data = result[c])
    /\ [][\A c \in Calls :
            (pc[c] = "cache" /\ pc'[c] # "cache")
            => /\ PutIssued(dbFault) => puts'[c] = 1
               /\ dbFault = "none" => lastPut'[url[c]] = c]_vars

\* both calls downloaded different bytes for one url and both put them; the
\* record is that of the later put
C13_Witness ==
    \E c, d \in Calls :
        /\ c # d
        /\ url[c] = url[d]
        /\ pc[c] = "resolved" /\ pc[d] = "resolved"
        /\ requests[c] = 1 /\ requests[d] = 1
        /\ puts[c] = 1 /\ puts[d] = 1
        /\ result[c] # result[d]
        /\ lastPut[url[c]] = c
        /\ lastResolved = [url |-> url[c], data |-> result[c]]
        /\ StoreGet(store, url[c]).data = result[c]

\* C14: the store never holds two records with one url; a put for a url
\* that has a record replaces it.
C14_OneRecordPerUrl ==
    /\ [](\A r1, r2 \in store : r1.url = r2.url => r1 = r2)
    /\ [][\A c \in Calls :
            (pc[c] = "cache" /\ pc'[c] # "cache" /\ dbFault = "none")
            => /\ StoreKeys(store') = StoreKeys(store) \cup {url[c]}
               /\ Cardinality(store') = Cardinality(StoreKeys(store'))
               /\ StoreGet(store', url[c]).data = arrayBuffer[c]]_vars

\* a call that missed on a failed lookup put a record over the one the
\* store already held
C14_Witness ==
    /\ pc[1] = "resolved"
    /\ requests[1] = 1
    /\ url[1] \in StoreKeys(storeBefore)
    /\ url[1] \in StoreKeys(store)
    /\ StoreGet(store, url[1]) # StoreGet(storeBefore, url[1])
    /\ Cardinality(store) = Cardinality(storeBefore)

\* the sum of the size fields of a sequence of entries
RECURSIVE SumOfSizes(_)
SumOfSizes(entries) ==
    IF entries = <<>> THEN 0 ELSE Head(entries).size + SumOfSizes(Tail(entries))

\* C15: in every state reached by puts, deletes and clears, getCacheSize()
\* is the sum of the size fields of the entries getCacheInfo() returns.
C15_AggregateConsistency ==
    \A f \in StoreFaults :
        GetCacheInfo(store, f).kind = "resolve"
        => GetCacheSize(store, f) = SumOfSizes(GetCacheInfo(store, f).value)

\* two entries, one of them of an empty buffer
C15_Witness ==
    /\ Len(GetCacheInfo(store, "none").value) = 2
    /\ GetCacheSize(store, "none") = 1

\* C16: the size field of every record is the byte length of its data, so
\* getCacheSize() is the sum of the lengths of the buffers getCachedModel
\* returns for the stored urls.
C16_SizeIsLength ==
    /\ \A r \in store : r.size = Len(r.data)
    /\ GetCacheSize(store, "none") =
           SumLen([i \in 1..Len(StoreGetAll(store)) |->
                      GetCachedModel(store, StoreGetAll(store)[i].url,
                                     "none").value])

\* two records with bytes
C16_Witness ==
    /\ Cardinality(store) = 2
    /\ \A r \in store : r.size = 1 /\ Len(r.data) = 1
    /\ GetCacheSize(store, "none") = 2

\* the lengths of the chunks, and whether the reported values are the
\* given whole percentages
ChunkLens(chs) == [i \in 1..Len(chs) |-> Len(chs[i])]
PercentsAre(log, vals) ==
    /\ Len(log) = Len(vals)
    /\ \A i \in 1..Len(log) : log[i].num = vals[i] * log[i].den

\* C17: from the empty store, a payload of 10 bytes that arrives as chunks
\* of 4, 4 and 2 bytes with content-length 10 is returned whole, onProgress
\* is called with 40, 80, 100 in that order, and once the record is written
\* isModelCached is true and getCacheSize() is 10.
C17_ConcreteScenario ==
    [][(/\ pc[1] = "cache" /\ pc'[1] # "cache" /\ dbFault = "none"
        /\ store = {}
        /\ onProgress[1]
        /\ contentLength[1] = <<"1", "0">>
        /\ ChunkLens(chunks[1]) = <<4, 4, 2>>)
       => /\ pc'[1] = "resolved"
          /\ Len(result'[1]) = 10
          /\ result'[1] = Payload
          /\ PercentsAre(progressLog'[1], <<40, 80, 100>>)
          /\ IsModelCached(store', url[1], "none")
          /\ GetCacheSize(store', "none") = 10]_vars

\* the scenario has run to its end
C17_Witness ==
    /\ pc[1] = "resolved"
    /\ onProgress[1]
    /\ contentLength[1] = <<"1", "0">>
    /\ ChunkLens(chunks[1]) = <<4, 4, 2>>
    /\ result[1] = Payload
    /\ Len(progressLog[1]) = 3
    /\ IsModelCached(store, "u1", "none")
    /\ GetCacheSize(store, "none") = 10

\* C18: on a store that works, clearCachedModel(u) resolves whether or not
\* u has a record and leaves isModelCached(u) false; evicting twice, one
\* record or all, gives the store that evicting once gives; after the only
\* record is evicted getCacheSize() is 0.
C18_EvictionIdempotent ==
    /\ \A u \in URLS :
          LET once == ClearCachedModelStore(store, u, "none")
          IN  /\ ClearCachedModelResult(store, u, "none") = "resolve"
              /\ ClearCachedModelResult(once, u, "none") = "resolve"
              /\ \A f \in StoreFaults : ~IsModelCached(once, u, f)
              /\ ClearCachedModelStore(once, u, "none") = once
              /\ StoreKeys(store) = {u} => GetCacheSize(once, "none") = 0
    /\ LET all == ClearAllCacheStore(store, "none")
       IN  /\ ClearAllCacheStore(all, "none") = all
           /\ GetCacheSize(all, "none") = 0
    /\ \A u \in URLS :
          (u \in StoreKeys(storeBefore) /\ lastPut[u] = 0 /\ Quiescent)
          => \A f \in StoreFaults : ~IsModelCached(store, u, f)

\* between two calls one of two records was evicted and the other is left
C18_Witness ==
    /\ Quiescent
    /\ \E u \in StoreKeys(storeBefore) :
          /\ u \notin StoreKeys(store)
          /\ ~IsModelCached(store, u, "none")
    /\ store # {}

\* C19: within one call the lookup completes before the request is issued,
\* chunks are read only between the response and the end of the stream, and
\* the store write is issued at most once, after the last read.
C19_StepOrder ==
    /\ [](\A c \in Calls :
            /\ requests[c] >= 1 => pc[c] \notin {"idle", "lookup"}
            /\ chunks[c] # <<>>
               => requests[c] = 1 /\ pc[c] \notin {"idle", "lookup", "fetch"}
            /\ puts[c] >= 1
               => /\ puts[c] = 1
                  /\ pc[c] = "resolved"
                  /\ arrayBuffer[c] = Flatten(chunks[c]))
    /\ [][\A c \in Calls :
            /\ requests'[c] # requests[c] => pc[c] = "lookup"
            /\ chunks'[c] # chunks[c] => pc[c] = "read" /\ puts'[c] = 0
            /\ puts'[c] # puts[c] => pc[c] = "cache" /\ chunks'[c] = chunks[c]
            /\ pc[c] \in {"cache", "resolved", "rejected"}
               => chunks'[c] = chunks[c] /\ requests'[c] = requests[c]]_vars

\* a download of two chunks ran through request, reads and write
C19_Witness ==
    \E c \in Calls :
        /\ pc[c] = "resolved"
        /\ requests[c] = 1
        /\ Len(chunks[c]) = 2
        /\ puts[c] = 1
        /\ url[c] \in StoreKeys(store)
        /\ StoreGet(store, url[c]).data = Flatten(chunks[c])

\* C20: two calls for different uncached urls whose puts were applied each
\* return their own downloaded bytes, and the store holds, for each url, one
\* record with the bytes of the call for that url; a put leaves the records
\* of other urls as they were.
C20_DistinctIdentitiesIndependent ==
    /\ [](\A c, d \in Calls :
            (/\ c # d /\ url[c] # url[d]
             /\ Missed(c) /\ Missed(d)
             /\ lastPut[url[c]] = c /\ lastPut[url[d]] = d)
            => \A e \in {c, d} :
                  /\ pc[e] = "resolved"
                  /\ result[e] = Flatten(chunks[e])
                  /\ Cardinality(RecordsOf(store, url[e])) = 1
                  /\ StoreGet(store, url[e]).data = result[e])
    /\ [][\A c \in Calls :
            (pc[c] = "cache" /\ pc'[c] # "cache")
            => \A u \in URLS \ {url[c]} :
                  RecordsOf(store', u) = RecordsOf(store, u)]_vars

\* two overlapping calls downloaded different bytes for different urls and
\* the store holds both
C20_Witness ==
    \E c, d \in Calls :
        /\ c # d /\ url[c] # url[d]
        /\ pc[c] = "resolved" /\ pc[d] = "resolved"
        /\ requests[c] = 1 /\ requests[d] = 1
        /\ result[c] # result[d]
        /\ Cardinality(store) = 2
        /\ StoreGet(store, url[c]).data = result[c]
        /\ StoreGet(store, url[d]).data = result[d]

\* C21: when the database cannot be opened, the lookup gives null and the
\* call downloads; when it cannot be opened for the write either, the call
\* still resolves with the downloaded bytes.
C21_StorageUnavailable ==
    [][\A c \in Calls :
        /\ (pc[c] = "lookup" /\ pc'[c] # "lookup" /\ dbFault = "open")
           => /\ pc'[c] = "fetch"
              /\ requests'[c] = 1
              /\ store' = store
        /\ (pc[c] = "cache" /\ pc'[c] # "cache" /\ dbFault = "open")
           => /\ pc'[c] = "resolved"
              /\ result'[c] = Flatten(chunks[c])
              /\ store' = store]_vars

\* a call resolved with downloaded bytes while the database was never
\* opened: neither its lookup nor its write got past indexedDB.open
C21_Witness ==
    \E c \in Calls :
        /\ schema = NoDatabase
        /\ pc[c] = "resolved"
        /\ requests[c] = 1
        /\ Len(result[c]) > 0
        /\ result[c] = Flatten(chunks[c])
        /\ store = {}

\* C22: isModelCached(url) leaves the store as it is and, when the lookup
\* does not fail, answers true exactly when the store holds a record of url;
\* it never answers true without a record.
C22_IsModelCachedPure ==
    [][(lastOp' # lastOp /\ lastOp'.op = "isModelCached")
       => /\ store' = store
          /\ lastOp'.kind = "resolve"
          /\ lastOp'.flag => lastOp'.url \in StoreKeys(store)
          /\ dbFault = "none"
             => (lastOp'.flag <=> lastOp'.url \in StoreKeys(store))]_vars

\* isModelCached answered true for a record of an empty buffer while another
\* record was in the store
C22_Witness ==
    /\ lastOp.op = "isModelCached"
    /\ lastOp.flag
    /\ Cardinality(store) = 2
    /\ StoreGet(store, lastOp.url).data = <<>>

\* C23: whatever puts, evictions and lookups interleave, a lookup gives null
\* or the whole buffer that one completed download of that url combined.
C23_NoHalfWrittenRecord ==
    \A c \in Calls :
        (pc[c] \notin {"idle", "lookup"} /\ cachedData[c] # NullBuf)
        => \E d \in Calls \ {c} :
              /\ url[d] = url[c]
              /\ pc[d] = "resolved"
              /\ requests[d] = 1
              /\ arrayBuffer[d] = Flatten(chunks[d])
              /\ cachedData[c] = arrayBuffer[d]

\* a lookup gave the bytes another call had downloaded and put, and the
\* record has been evicted since
C23_Witness ==
    \E c, d \in Calls :
        /\ c # d
        /\ url[c] = url[d]
        /\ pc[d] = "resolved" /\ requests[d] = 1
        /\ pc[c] = "resolved" /\ requests[c] = 0
        /\ Len(cachedData[c]) = 1
        /\ cachedData[c] = Flatten(chunks[d])
        /\ url[c] \notin StoreKeys(store)

\* C24: a record stays in the store, with its data, timestamp and size,
\* through every step that is not an eviction of its url or of all, nor the
\* store write of a call for its url; a lookup, hit or miss, leaves the
\* store as it is.
C24_RecordLifecycle ==
    [][/\ \A r \in store :
            \/ r \in store'
            \/ lastPut'[r.url] = 0 /\ pc' = pc
            \/ \E c \in Calls :
                  /\ pc[c] = "cache" /\ pc'[c] = "resolved"
                  /\ url[c] = r.url
                  /\ StoreGet(store', r.url).data = arrayBuffer[c]
       /\ \A c \in Calls :
            (pc[c] = "lookup" /\ pc'[c] # "lookup") => store' = store]_vars

\* a call was served from a record written at time 1 while records of both
\* urls were stored, and both are as they were
C24_Witness ==
    \E c \in Calls :
        /\ pc[c] = "resolved"
        /\ requests[c] = 0
        /\ cachedData[c] # NullBuf
        /\ Cardinality(store) = 2
        /\ StoreGet(store, url[c]).timestamp = 1
        /\ store = storeBefore

\* the schema openDB leaves: version DB_VERSION with the one object store
FullSchema == [version |-> DB_VERSION, objectStoreNames |-> {STORE_NAME}]

\* C25: openDB creates the object store only while the database has none;
\* once the schema exists, opening again, before any operation and any
\* number of times, changes neither the schema nor a record.
C25_OpenIdempotent ==
    /\ [](/\ schema \in {NoDatabase, FullSchema}
          /\ schema = NoDatabase => store = {}
          /\ \A f \in StoreFaults :
                LET db == Database(schema, store)
                    once == OpenDB(db, f)
                IN  /\ OpenDB(once, f) = once
                    /\ OpenDB(once, "none") = OpenDB(db, "none")
                    /\ schema = FullSchema => once = db)
    /\ [][/\ schema' # schema => schema = NoDatabase /\ schema' = FullSchema
          /\ (lastOp' # lastOp /\ lastOp'.op \in {"getCachedModel",
                    "isModelCached", "getCacheSize"}) => store' = store]_vars

\* the database was reopened for a lookup that found a record, with records
\* of both urls stored
C25_Witness ==
    /\ schema = FullSchema
    /\ Cardinality(store) = 2
    /\ lastOp.op = "getCachedModel"
    /\ lastOp.kind = "resolve"
    /\ Len(lastOp.data) = 1
    /\ StoreGet(store, lastOp.url).data = lastOp.data

\* C26 as stated: the dataset is set only by a loadVoices call that
\* completes; once set it never changes; a call made once it is set
\* resolves with it and issues no request.
C26_VoiceCache_AsStated ==
    [][/\ cachedVoices' # cachedVoices
          => \E c \in Calls : /\ vpc[c] = "json" /\ vpc'[c] = "resolved"
                               /\ voices'[c] = cachedVoices'
       /\ cachedVoices # Null => cachedVoices' = cachedVoices
       /\ \A c \in Calls :
            (vpc[c] = "idle" /\ vpc'[c] # "idle" /\ cachedVoices # Null)
            => /\ vpc'[c] = "resolved"
               /\ voices'[c] = cachedVoices
               /\ vrequests'[c] = 0]_vars

\* C26 amended: the dataset is set only by a loadVoices call that
\* completes; once set it is never unset, and it is replaced only by the
\* completion of a call that had issued its request while it was unset; a
\* call made once it is set resolves with the dataset then held and issues
\* no request.
C26_VoiceCache ==
    [][/\ cachedVoices' # cachedVoices
          => \E c \in Calls : /\ vpc[c] = "json" /\ vpc'[c] = "resolved"
                               /\ vrequests[c] = 1
                               /\ voices'[c] = cachedVoices'
       /\ cachedVoices # Null => cachedVoices' # Null
       /\ \A c \in Calls :
            (vpc[c] = "idle" /\ vpc'[c] # "idle" /\ cachedVoices # Null)
            => /\ vpc'[c] = "resolved"
               /\ voices'[c] = cachedVoices
               /\ vrequests'[c] = 0]_vars

\* two overlapping calls both fetched; the dataset is the one of the call
\* that completed last, and the other call resolved with a different one
C26_Witness ==
    \E c, d \in Calls :
        /\ c # d
        /\ vpc[c] = "resolved" /\ vrequests[c] = 1
        /\ vpc[d] = "resolved" /\ vrequests[d] = 1
        /\ voices[c] # voices[d]
        /\ cachedVoices = voices[d]

\* C27: clearCachedModel(url) removes the record of url and no other: the
\* records of every other url are as before, and getCacheSize() goes down
\* by the size of the removed record, by 0 if there was none.
C27_EvictOneFrame ==
    [][(lastOp'.tick # lastOp.tick /\ lastOp'.op = "clearCachedModel")
       => LET u == lastOp'.url
              removed == IF u \in StoreKeys(store)
                         THEN StoreGet(store, u).size ELSE 0
          IN  /\ \A v \in URLS \ {u} : RecordsOf(store', v) = RecordsOf(store, v)
              /\ dbFault = "none"
                 => /\ RecordsOf(store', u) = {}
                    /\ GetCacheSize(store', "none") =
                          GetCacheSize(store, "none") - removed
              /\ dbFault # "none" => store' = store]_vars

\* one url was evicted and the record of the other, of one byte, is left
C27_Witness ==
    /\ lastOp.op = "clearCachedModel"
    /\ lastOp.kind = "resolve"
    /\ lastOp.url \notin StoreKeys(store)
    /\ Cardinality(store) = 1
    /\ GetCacheSize(store, "none") = 1

\* C28 as stated: a lookup that meets a storage failure, at the open, at the
\* transaction or at the get request, gives null, and the call goes on to
\* download.
C28_LookupNeverRejects_AsStated ==
    [][\A c \in Calls :
        (/\ pc[c] = "lookup" /\ pc'[c] # "lookup"
         /\ dbFault \in {"open", "transaction", "request"})
        => /\ GetCachedModel(store, url[c], dbFault) = Resolve(NullBuf)
           /\ cachedData'[c] = NullBuf
           /\ pc'[c] = "fetch"
           /\ requests'[c] = 1]_vars

\* C29 as stated: when cacheModel(url, data) has resolved, the record is in
\* the store and getCachedModel(url) returns data.
C29_ResolvedMeansCommitted_AsStated ==
    [][(/\ lastOp'.tick # lastOp.tick
        /\ lastOp'.op = "cacheModel"
        /\ lastOp'.kind = "resolve")
       => /\ lastOp'.url \in StoreKeys(store')
          /\ GetCachedModel(store', lastOp'.url, "none") =
                Resolve(lastOp'.data)]_vars

\* C30 as stated: every value passed to onProgress is above 0 and at most
\* 100.
C30_ProgressRange_AsStated ==
    \A c \in Calls :
        \A i \in 1..Len(progressLog[c]) :
            /\ progressLog[c][i].num > 0
            /\ progressLog[c][i].num <= 100 * progressLog[c][i].den

\* no handler of the component is in flight
UiQuiescent ==
    /\ loadPc = "idle"
    /\ genPc = "idle"
    /\ updating = {}
    /\ evicting = {}
    /\ ~clearing
    /\ \A c \in Calls : vpc[c] = "idle"

\* C31 as stated: when no operation is in flight, isCached equals the
\* membership in the store of the URL in the model URL input
C31_IsCachedMatchesStore_AsStated ==
    UiQuiescent => (isCached <=> Concat(modelUrl) \in StoreKeys(store))

\* C32: isModelLoaded implies that sessionRef and voicesRef are set, and
\* once true it never becomes false
C32_LoadedMeansReady ==
    /\ [](isModelLoaded => sessionRef # Null /\ voicesRef # Null)
    /\ [][isModelLoaded => isModelLoaded']_vars
C32_Witness ==
    /\ isModelLoaded
    /\ sessionRef = "session"
    /\ voicesRef \in VoiceSets
    /\ loadPc = "idle"
    /\ audioUrl # 0

\* C33: every loadModel and generateSpeech that set isLoading to true sets
\* it back to false, whatever the outcome of the operations it awaits
C33_LoadingEnds == isLoading ~> ~isLoading
C33_Witness ==
    /\ isModelLoaded
    /\ ~isLoading
    /\ loadPc = "idle"
    /\ genPc = "idle"
    /\ error = "Inference failed"

\* the messages of the two errors the validation of the URL throws
ValidationErrors ==
    {ValidateUrl(input) : input \in ModelUrlInputs} \ {Null}

\* a step in which loadModel fails at the validation, or leaves the
\* download, the session creation or the wait for the voices through its
\* catch
LoadFails ==
    \/ /\ loadPc \in {"lookup", "fetch", "cache", "session", "voices"}
       /\ loadPc' = "idle"
    \/ /\ loadPc = "idle" /\ loadPc' = "idle"
       /\ error' # error /\ error' \in ValidationErrors

\* C34: when loadModel fails at the validation, the download, the session
\* creation or the voice loading, it ends with error set, currentModelUrl
\* null, downloadProgress 0, isLoading false and isModelLoaded false
C34_FailedLoadState ==
    [][LoadFails =>
        /\ error' # Null
        /\ currentModelUrl' = Null
        /\ downloadProgress' = 0
        /\ ~isLoading'
        /\ ~isModelLoaded']_vars
C34_Witness ==
    /\ error = "Failed to fetch"
    /\ loadPc = "idle"
    /\ store = {}
    /\ downloadProgress = 0
    /\ currentModelUrl = Null
    /\ ~isLoading
    /\ ~isModelLoaded

\* C35: with a model URL that is blank or starts with neither '/' nor
\* 'http', loadModel issues no request for the model or the voices and runs
\* no store operation: it stops at the validation
C35_InvalidUrlRejected ==
    /\ [](/\ ValidateUrl(<<>>) = "Model URL cannot be empty"
          /\ ValidateUrl(<<Space, Space>>) = "Model URL cannot be empty"
          /\ loadPc # "idle" => resolvedUrl \in URLS \cup RelativePaths)
    /\ [][ValidateUrl(modelUrl) # Null =>
            /\ loadPc = "idle" => loadPc' = "idle"
            /\ \A c \in Calls : vrequests'[c] <= vrequests[c]
            /\ (loadPc = "idle" /\ error' # error) =>
                    /\ error' = ValidateUrl(modelUrl)
                    /\ store' = store
                    /\ schema' = schema
                    /\ vpc' = vpc]_vars
C35_Witness ==
    /\ modelUrl = <<"ftp">>
    /\ error \in ValidationErrors
    /\ loadPc = "idle"
    /\ ~isLoading
    /\ \A c \in Calls : vpc[c] = "idle" /\ vrequests[c] = 0
    /\ store = {}

\* C36: a load from a relative path never goes through
\* downloadAndCacheModel, and none of its steps changes the records of the
\* store
C36_RelativeLoadNoWrite ==
    /\ [](loadPc \in {"lookup", "cache"} => resolvedUrl \in URLS)
    /\ [][(/\ loadPc' # loadPc
           /\ resolvedUrl \in RelativePaths \/ resolvedUrl' \in RelativePaths)
          => store' = store /\ lastPut' = lastPut]_vars
C36_Witness ==
    /\ isModelLoaded
    /\ currentModelUrl \in RelativePaths
    /\ loadPc = "idle"
    /\ "u1" \in StoreKeys(store)

\* the preconditions of the inference: session and voices loaded, text not
\* blank, at least one token, at most 1000 padded tokens
RunPreconditions ==
    /\ sessionRef # Null
    /\ voicesRef # Null
    /\ Trim(text) # <<>>
    /\ Len(Tokens(text, useAdvancedTokenizer)) > 0
    /\ Len(Tokens(text, useAdvancedTokenizer)) + 2 <= MaxPaddedTokens

\* C37: generateSpeech calls session.run only when the session and the
\* voices are loaded, the text is not blank, there is at least one token
\* and at most 1000 padded tokens; otherwise it sets an error and runs no
\* inference
C37_RunOnlyUnderPreconditions ==
    /\ [](/\ SpeechError(Null, "v1", <<"a">>, FALSE) = "Model not loaded"
          /\ SpeechError("session", Null, <<"a">>, FALSE)
                 = "Voice embeddings not loaded"
          /\ SpeechError("session", "v1", <<Space>>, FALSE)
                 = "Please enter some text")
    /\ [][(genPc = "idle" /\ genPc' = "run") => RunPreconditions]_vars
    /\ [][(/\ genPc = "idle" /\ loadPc = "idle" /\ isModelLoaded
           /\ error' # error
           /\ ~RunPreconditions)
          => error' # Null /\ genPc' = "idle" /\ ~isLoading']_vars
C37_Witness ==
    /\ error = "Text too long - please use shorter text"
    /\ text = Repeat("a", MaxPaddedTokens - 1)
    /\ genPc = "idle"
    /\ audioUrl # 0

\* C38 as stated: of the object URLs created at most one is not revoked,
\* and none is revoked twice
C38_AudioUrlCleanup_AsStated ==
    /\ Cardinality({i \in 1..objectUrls : revoked[i] = 0}) <= 1
    /\ \A i \in 1..objectUrls : revoked[i] <= 1

\* C39: a call of loadVoices whose fetch fails or is answered with a non-OK
\* status rejects and leaves the module-level dataset as it was, so that it
\* stays unset; while it is unset a new call issues a new request
C39_FailedLoadNotCached ==
    [][\A c \in Calls :
        /\ (vpc[c] = "fetch" /\ vpc'[c] = "rejected") =>
              /\ cachedVoices' = cachedVoices
              /\ voices'[c] = Null
              /\ ~VoicesCached(cachedVoices) =>
                    /\ ~VoicesCached(cachedVoices')
                    /\ GetAvailableVoiceIds(cachedVoices') = {}
        /\ (/\ vpc[c] = "idle" /\ vpc'[c] # "idle"
            /\ ~VoicesCached(cachedVoices)) =>
              /\ vpc'[c] = "fetch"
              /\ vrequests'[c] = vrequests[c] + 1]_vars
C39_Witness ==
    /\ vpc[1] = "rejected"
    /\ vpc[2] = "fetch"
    /\ vrequests[2] = 1
    /\ ~VoicesCached(cachedVoices)
    /\ GetAvailableVoiceIds(cachedVoices) = {}

====
